---- MODULE Spec2Model ----
(***************************************************************************)
(* Model of the self-healing scenario executor of src/autonomous_qa.py:    *)
(* IntentTarget, LocatorResolver.resolve, the accessibility candidate      *)
(* collector and ranker, ZeroTouchAgent._execute_action, _capture_selector,*)
(* _heal_step and execute.                                                 *)
(*                                                                         *)
(* Text values (names, labels, selectors ...) are sequences of one-char    *)
(* strings so that substring tests and similarity are computed; <<>> is    *)
(* the empty/None text (Python tests them by truthiness).  Action names    *)
(* are compared only by equality and are plain strings.                    *)
(***************************************************************************)
EXTENDS Integers, Sequences, FiniteSets, TLC

(***************************************************************************)
(* Text literals used by the pools below.                                  *)
(***************************************************************************)
rButton == <<"b","u","t","t","o","n">>
rLink == <<"l","i","n","k">>
rTextbox == <<"t","e","x","t","b","o","x">>
rCombobox == <<"c","o","m","b","o","b","o","x">>
rSearchbox == <<"s","e","a","r","c","h","b","o","x">>
rHeading == <<"h","e","a","d","i","n","g">>
sLogin == <<"L","o","g","i","n">>
sLog == <<"l","o","g">>
sSignIn == <<"S","i","g","n"," ","I","n">>
sWelcome == <<"W","e","l","c","o","m","e">>
sUser == <<"U","s","e","r">>
sTip == <<"T","i","p">>
sSearch == <<"S","e","a","r","c","h">>
sT1 == <<"t","1">>
sCssA == <<"#","a">>
sCssB == <<"#","b">>
sCssC == <<"#","c">>
sCssD == <<"#","d">>
sCssE == <<"#","e">>
sCssF == <<"#","f">>
sCssG == <<"#","g">>
sHelp == <<"H","e","l","p">>
sCssH == <<"#","h">>
\* "input[name='q']", the first selector of the search-box heuristic
sInputQ == <<"i","n","p","u","t","[","n","a","m","e","=","'","q","'","]">>
sTextareaQ == <<"t","e","x","t","a","r","e","a","[","n","a","m","e","=","'","q","'","]">>
sInputQuery == <<"i","n","p","u","t","[","n","a","m","e","=","'","q","u","e","r","y","'","]">>
sHashQuery == <<"#","q","u","e","r","y">>

(***************************************************************************)
(* str.lower() on the characters the pools use.                            *)
(***************************************************************************)
LowerChar(c) ==
  CASE c = "L" -> "l" [] c = "S" -> "s" [] c = "I" -> "i" [] c = "W" -> "w"
    [] c = "U" -> "u" [] c = "T" -> "t" [] OTHER -> c

Lower(s) == [i \in 1..Len(s) |-> LowerChar(s[i])]

\* Python's  a in b  for strings: a occurs as a contiguous run of b
IsSubstr(a, b) ==
  \E k \in 0..(Len(b) - Len(a)) : \A i \in 1..Len(a) : b[k + i] = a[i]

\* the backend's exact=False text match: case-insensitive substring
ContainsCI(hay, needle) == IsSubstr(Lower(needle), Lower(hay))

(***************************************************************************)
(* IntentTarget (dataclass): a record of eight optional fields.            *)
(***************************************************************************)
EmptyTarget ==
  [role |-> <<>>, name |-> <<>>, label |-> <<>>, text |-> <<>>,
   placeholder |-> <<>>, title |-> <<>>, testid |-> <<>>, selector |-> <<>>]

IntentTarget(role, name, label, text, placeholder, title, testid, selector) ==
  [role |-> role, name |-> name, label |-> label, text |-> text,
   placeholder |-> placeholder, title |-> title, testid |-> testid,
   selector |-> selector]

(***************************************************************************)
(* A page is a sequence of elements in document order.  An element carries *)
(* what the backend's queries look at: role, accessible name, label, text, *)
(* placeholder, title, data-testid, the selectors that match it (sels),    *)
(* the selector _capture_selector computes for it (css) and whether it is  *)
(* visible within the fast-fail window.                                    *)
(***************************************************************************)
Element(role, name, label, text, placeholder, title, testid, css, sels, visible) ==
  [role |-> role, name |-> name, label |-> label, text |-> text,
   placeholder |-> placeholder, title |-> title, testid |-> testid,
   css |-> css, sels |-> sels, visible |-> visible]

\* "[data-testid='<t>']" as resolve builds it
TestIdSelector(t) ==
  <<"[","d","a","t","a","-","t","e","s","t","i","d","=","'">> \o t \o <<"'","]">>

\* "[data-testid=\"<t>\"]" as _capture_selector's script builds it
TestIdSelectorDq(t) ==
  <<"[","d","a","t","a","-","t","e","s","t","i","d","=","\"">> \o t \o <<"\"","]">>

\* page.locator(selector): the elements the selector matches
MatchesSelector(e, s) ==
  \/ s \in e.sels
  \/ s = e.css
  \/ e.testid # <<>> /\ s \in {TestIdSelector(e.testid), TestIdSelectorDq(e.testid)}

\* a locator: the indices of the matching elements, in document order
Locate(dom, hits) ==
  SelectSeq([i \in 1..Len(dom) |-> i], LAMBDA i : i \in hits)

\* locator.filter(visible=True)
FilterVisible(dom, loc) == SelectSeq(loc, LAMBDA i : dom[i].visible)

\* LocatorResolver._try_visible: locator.first becomes visible in the window
TryVisible(dom, loc) == Len(loc) > 0 /\ dom[loc[1]].visible

(***************************************************************************)
(* LocatorResolver.resolve.  Each probe yields a Hit carrying the locator  *)
(* it returns, or Miss; resolve returns the first Hit in the order of the  *)
(* code and raises RuntimeError("Target not resolved") when all miss.      *)
(***************************************************************************)
Miss == [ok |-> FALSE, strategy |-> "none", loc |-> <<>>]

Hit(strategy, loc) == [ok |-> TRUE, strategy |-> strategy, loc |-> loc]

Probe(dom, strategy, loc) == IF TryVisible(dom, loc) THEN Hit(strategy, loc) ELSE Miss

\* 0. target.selector: page.locator(selector).filter(visible=True)
BySelector(target, dom) ==
  IF target.selector # <<>>
  THEN Probe(dom, "selector",
             FilterVisible(dom, Locate(dom, {i \in DOMAIN dom : MatchesSelector(dom[i], target.selector)})))
  ELSE Miss

\* 1. role and name: page.get_by_role(role, name=name, exact=False)
ByRoleName(target, dom) ==
  IF target.role # <<>> /\ target.name # <<>>
  THEN Probe(dom, "role_name",
             Locate(dom, {i \in DOMAIN dom : dom[i].role = target.role /\ ContainsCI(dom[i].name, target.name)}))
  ELSE Miss

\* mutant: the role-only probe answers with the first of several elements
ByRoleOnly_AnyCount(target, dom) ==
  IF target.role # <<>> /\ target.name # <<>>
  THEN LET loc_role_only == FilterVisible(dom, Locate(dom, {i \in DOMAIN dom : dom[i].role = target.role}))
       IN  IF Len(loc_role_only) >= 1 THEN Probe(dom, "role_only", loc_role_only) ELSE Miss
  ELSE Miss

\* mutant: the elements of the role are counted whether visible or not
ByRoleOnly_CountsHidden(target, dom) ==
  IF target.role # <<>> /\ target.name # <<>>
  THEN LET of_role == Locate(dom, {i \in DOMAIN dom : dom[i].role = target.role})
       IN  IF Len(of_role) = 1 THEN Probe(dom, "role_only", FilterVisible(dom, of_role)) ELSE Miss
  ELSE Miss

\* 1b. the only visible element of that role, whatever its name
ByRoleOnly(target, dom) ==
  IF target.role # <<>> /\ target.name # <<>>
  THEN LET loc_role_only == FilterVisible(dom, Locate(dom, {i \in DOMAIN dom : dom[i].role = target.role}))
       IN  IF Len(loc_role_only) = 1 THEN Probe(dom, "role_only", loc_role_only) ELSE Miss
  ELSE Miss

\* 1.5 search-box heuristic for combobox / textbox / searchbox targets
SearchSelectors == <<sInputQ, sTextareaQ, sInputQuery, sHashQuery>>

RECURSIVE FirstHit(_)
FirstHit(probes) ==
  IF probes = <<>> THEN Miss
  ELSE IF Head(probes).ok THEN Head(probes) ELSE FirstHit(Tail(probes))

BySearchHeuristic(target, dom) ==
  IF target.role \in {rCombobox, rTextbox, rSearchbox}
  THEN FirstHit([k \in 1..Len(SearchSelectors) |->
         Probe(dom, "search_heuristic",
               FilterVisible(dom, Locate(dom, {i \in DOMAIN dom : MatchesSelector(dom[i], SearchSelectors[k])})))])
  ELSE Miss

\* 2. search_term = name or text or label or title
SearchTerm(target) ==
  IF target.name # <<>> THEN target.name
  ELSE IF target.text # <<>> THEN target.text
  ELSE IF target.label # <<>> THEN target.label
  ELSE target.title

\* mutant: the  if search_term  guard dropped, the empty term probed by text
ByTerm_NoGuard(target, dom) ==
  Probe(dom, "text", Locate(dom, {i \in DOMAIN dom : ContainsCI(dom[i].text, SearchTerm(target))}))

\* mutant: the text probed before the title and the placeholder
ByTerm_TextSecond(target, dom) ==
  LET term == SearchTerm(target)
  IN  IF term # <<>>
      THEN FirstHit(<<
             Probe(dom, "label", Locate(dom, {i \in DOMAIN dom : ContainsCI(dom[i].label, term)})),
             Probe(dom, "text", Locate(dom, {i \in DOMAIN dom : ContainsCI(dom[i].text, term)})),
             Probe(dom, "title", Locate(dom, {i \in DOMAIN dom : ContainsCI(dom[i].title, term)})),
             Probe(dom, "placeholder_term",
                   Locate(dom, {i \in DOMAIN dom : ContainsCI(dom[i].placeholder, term)})),
             Probe(dom, "term_selector", Locate(dom, {i \in DOMAIN dom : MatchesSelector(dom[i], term)})) >>)
      ELSE Miss

\* get_by_label, get_by_title, get_by_placeholder, get_by_text (exact=False),
\* then the term taken as a CSS selector
ByTerm(target, dom) ==
  LET term == SearchTerm(target)
  IN  IF term # <<>>
      THEN FirstHit(<<
             Probe(dom, "label", Locate(dom, {i \in DOMAIN dom : ContainsCI(dom[i].label, term)})),
             Probe(dom, "title", Locate(dom, {i \in DOMAIN dom : ContainsCI(dom[i].title, term)})),
             Probe(dom, "placeholder_term",
                   Locate(dom, {i \in DOMAIN dom : ContainsCI(dom[i].placeholder, term)})),
             Probe(dom, "text", Locate(dom, {i \in DOMAIN dom : ContainsCI(dom[i].text, term)})),
             Probe(dom, "term_selector", Locate(dom, {i \in DOMAIN dom : MatchesSelector(dom[i], term)})) >>)
      ELSE Miss

\* 3. target.testid: page.locator("[data-testid='...']")
ByTestId(target, dom) ==
  IF target.testid # <<>>
  THEN Probe(dom, "testid", Locate(dom, {i \in DOMAIN dom : dom[i].testid = target.testid}))
  ELSE Miss

\* 4. target.placeholder: page.get_by_placeholder(placeholder)
ByPlaceholder(target, dom) ==
  IF target.placeholder # <<>>
  THEN Probe(dom, "placeholder",
             Locate(dom, {i \in DOMAIN dom : ContainsCI(dom[i].placeholder, target.placeholder)}))
  ELSE Miss

\* mutant: the text-term probes tried before role + name
resolve_TermFirst(target, dom) ==
  FirstHit(<< BySelector(target, dom), ByTerm(target, dom), ByRoleName(target, dom),
              ByRoleOnly(target, dom), BySearchHeuristic(target, dom),
              ByTestId(target, dom), ByPlaceholder(target, dom) >>)

\* mutant: the raw selector tried last
resolve_SelectorLast(target, dom) ==
  FirstHit(<< ByRoleName(target, dom), ByRoleOnly(target, dom),
              BySearchHeuristic(target, dom), ByTerm(target, dom),
              ByTestId(target, dom), ByPlaceholder(target, dom), BySelector(target, dom) >>)

\* the result of resolve: a Hit, or Miss for the RuntimeError
resolve(target, dom) ==
  FirstHit(<< BySelector(target, dom), ByRoleName(target, dom), ByRoleOnly(target, dom),
              BySearchHeuristic(target, dom), ByTerm(target, dom),
              ByTestId(target, dom), ByPlaceholder(target, dom) >>)

(***************************************************************************)
(* similarity: difflib.SequenceMatcher(None, a, b).ratio() = 2*M/T, M the  *)
(* characters in the matching blocks (longest block first, earliest in a,  *)
(* then earliest in b, then recursively to its left and right), T the sum  *)
(* of the lengths.  Ratios are exact fractions.                            *)
(***************************************************************************)
Frac(n, d) == [num |-> n, den |-> d]

FracLess(x, y) == x.num * y.den < y.num * x.den

FracMax(x, y) == IF FracLess(x, y) THEN y ELSE x

SetMax(S) == CHOOSE x \in S : \A y \in S : y <= x

SetMin(S) == CHOOSE x \in S : \A y \in S : x <= y

\* length of the common run of a from i and b from j, inside a[..ahi], b[..bhi]
RECURSIVE RunLen(_, _, _, _, _, _)
RunLen(a, b, i, j, ahi, bhi) ==
  IF i > ahi \/ j > bhi THEN 0
  ELSE IF a[i] # b[j] THEN 0
  ELSE 1 + RunLen(a, b, i + 1, j + 1, ahi, bhi)

\* SequenceMatcher.find_longest_match on a[alo..ahi], b[blo..bhi]
find_longest_match(a, b, alo, ahi, blo, bhi) ==
  LET pairs == (alo..ahi) \X (blo..bhi)
      size == SetMax({RunLen(a, b, p[1], p[2], ahi, bhi) : p \in pairs} \cup {0})
      best == {p \in pairs : RunLen(a, b, p[1], p[2], ahi, bhi) = size}
      i == SetMin({p[1] : p \in best})
      j == SetMin({p[2] : p \in {q \in best : q[1] = i}})
  IN  IF size = 0 THEN [i |-> alo, j |-> blo, size |-> 0]
      ELSE [i |-> i, j |-> j, size |-> size]

\* the sum of the sizes of SequenceMatcher.get_matching_blocks
RECURSIVE MatchedChars(_, _, _, _, _, _)
MatchedChars(a, b, alo, ahi, blo, bhi) ==
  IF alo > ahi \/ blo > bhi THEN 0
  ELSE LET m == find_longest_match(a, b, alo, ahi, blo, bhi)
       IN  IF m.size = 0 THEN 0
           ELSE m.size
                + MatchedChars(a, b, alo, m.i - 1, blo, m.j - 1)
                + MatchedChars(a, b, m.i + m.size, ahi, m.j + m.size, bhi)

\* SequenceMatcher.ratio
Ratio(a, b) ==
  IF Len(a) + Len(b) = 0 THEN Frac(1, 1)
  ELSE Frac(2 * MatchedChars(a, b, 1, Len(a), 1, Len(b)), Len(a) + Len(b))

ContainFloor == Frac(85, 100)

\* mutant: containment adds nothing to the ratio
similarity_RatioOnly(a, b) ==
  IF a = <<>> \/ b = <<>> THEN Frac(0, 1)
  ELSE Ratio(Lower(a), Lower(b))

similarity(a, b) ==
  IF a = <<>> \/ b = <<>> THEN Frac(0, 1)
  ELSE LET a_low == Lower(a)
           b_low == Lower(b)
           ratio == Ratio(a_low, b_low)
       IN  IF IsSubstr(a_low, b_low) \/ IsSubstr(b_low, a_low)
           THEN FracMax(ratio, ContainFloor)
           ELSE ratio

\* round(s, 3) in thousandths; Python rounds an exact tie to the even digit
Round3(x) ==
  LET n == 1000 * x.num
      q == n \div x.den
      r == n % x.den
  IN  IF 2 * r < x.den THEN q
      ELSE IF 2 * r > x.den THEN q + 1
      ELSE IF q % 2 = 0 THEN q ELSE q + 1

(***************************************************************************)
(* The accessibility snapshot and the candidates harvested from it.        *)
(***************************************************************************)
Node(role, name, children) == [role |-> role, name |-> name, children |-> children]

rWebArea == <<"W","e","b","A","r","e","a">>

\* the error of page.accessibility.snapshot(), and the snapshot of no page
SnapshotError == Node(<<"!">>, <<>>, <<>>)
SnapshotNone == Node(<<>>, <<>>, <<>>)

\* page.accessibility.snapshot(): the root and one node per exposed element
Snapshot(dom) ==
  IF dom = <<>> THEN SnapshotNone
  ELSE Node(rWebArea, <<>>,
            [k \in 1..Len(FilterVisible(dom, Locate(dom, DOMAIN dom))) |->
               LET e == dom[FilterVisible(dom, Locate(dom, DOMAIN dom))[k]]
               IN  Node(e.role, e.name, <<>>)])

\* walk: depth-first, a node before its children
RECURSIVE walk(_)
RECURSIVE walkAll(_)
walk(node) ==
  (IF node.role # <<>> /\ node.name # <<>>
   THEN << [role |-> node.role, name |-> node.name] >> ELSE <<>>)
  \o walkAll(node.children)

walkAll(children) ==
  IF children = <<>> THEN <<>> ELSE walk(Head(children)) \o walkAll(Tail(children))

\* the dict key f"{role}|{name}"
DedupKey(r) == r.role \o <<"|">> \o r.name

\* mutant: a repeated key moves its entry to the place of its last result
Dedup_AtLast(results) ==
  LET lasts == SelectSeq([i \in 1..Len(results) |-> i],
                 LAMBDA i : \A k \in (i + 1)..Len(results) :
                              DedupKey(results[k]) # DedupKey(results[i]))
  IN  [n \in 1..Len(lasts) |-> results[lasts[n]]]

\* dedup[key] = r for each result, then list(dedup.values()): one entry per
\* key at the place of the key's first result, holding its last result
Dedup(results) ==
  LET firsts == SelectSeq([i \in 1..Len(results) |-> i],
                  LAMBDA i : \A k \in 1..(i - 1) : DedupKey(results[k]) # DedupKey(results[i]))
      lastOf(i) == SetMax({k \in 1..Len(results) : DedupKey(results[k]) = DedupKey(results[i])})
  IN  [n \in 1..Len(firsts) |-> results[lastOf(firsts[n])]]

collect_accessibility_candidates(snapshot) ==
  IF snapshot = SnapshotError THEN <<>>
  ELSE IF snapshot = SnapshotNone THEN <<>>
  ELSE Dedup(walk(snapshot))

rMenuitem == <<"m","e","n","u","i","t","e","m">>
rTab == <<"t","a","b">>
rCheckbox == <<"c","h","e","c","k","b","o","x">>
rRadio == <<"r","a","d","i","o">>
rImg == <<"i","m","g">>
rSpinbutton == <<"s","p","i","n","b","u","t","t","o","n">>
rTextarea == <<"t","e","x","t","a","r","e","a">>

\* mutant: headings count as clickable candidates
ClickRoles_WithHeading == {rButton, rLink, rMenuitem, rTab, rCheckbox, rRadio, rImg, rHeading}

\* mutant: images are not clickable candidates
ClickRoles_NoImg == {rButton, rLink, rMenuitem, rTab, rCheckbox, rRadio}

ClickRoles == {rButton, rLink, rMenuitem, rTab, rCheckbox, rRadio, rImg}
FillRoles == {rTextbox, rSearchbox, rCombobox, rSpinbutton, rTextarea}

\* mutant: every candidate suits every action
filter_candidates_NoFilter(action, candidates) == candidates

filter_candidates_by_action(action, candidates) ==
  IF action \in {"click", "double_click", "hover"}
  THEN SelectSeq(candidates, LAMBDA c : c.role \in ClickRoles)
  ELSE IF action \in {"fill"}
  THEN SelectSeq(candidates, LAMBDA c : c.role \in FillRoles)
  ELSE candidates

\* mutant: a lower floor for a candidate of the preferred role
RoleFloor_Half == Frac(5, 10)

\* max(s, 0.6) for a candidate of the target's role
RoleFloor == Frac(6, 10)

\* the score rank_candidates gives one candidate, in thousandths
Score(query, target_role, c) ==
  LET s == similarity(query, c.name)
  IN  Round3(IF target_role # <<>> /\ c.role = target_role THEN FracMax(s, RoleFloor) ELSE s)

\* mutant: an element is put before the elements of its own score
RECURSIVE InsertByScore_TiesReversed(_, _)
InsertByScore_TiesReversed(sorted, x) ==
  IF sorted = <<>> THEN <<x>>
  ELSE IF Head(sorted).score > x.score
  THEN <<Head(sorted)>> \o InsertByScore_TiesReversed(Tail(sorted), x)
  ELSE <<x>> \o sorted

\* list.sort(key=score, reverse=True): stable, by insertion
RECURSIVE InsertByScore(_, _)
InsertByScore(sorted, x) ==
  IF sorted = <<>> THEN <<x>>
  ELSE IF Head(sorted).score >= x.score THEN <<Head(sorted)>> \o InsertByScore(Tail(sorted), x)
  ELSE <<x>> \o sorted

\* mutant: an ascending sort read backwards, which turns the ties around
RECURSIVE SortByScore_Backwards(_)
SortByScore_Backwards(scored) ==
  IF scored = <<>> THEN <<>>
  ELSE InsertByScore_TiesReversed(SortByScore_Backwards(SubSeq(scored, 1, Len(scored) - 1)),
                                  scored[Len(scored)])

RECURSIVE SortByScore(_)
SortByScore(scored) ==
  IF scored = <<>> THEN <<>>
  ELSE InsertByScore(SortByScore(SubSeq(scored, 1, Len(scored) - 1)), scored[Len(scored)])

rank_candidates(query, target_role, candidates) ==
  SortByScore([k \in 1..Len(candidates) |->
    [role |-> candidates[k].role, name |-> candidates[k].name,
     score |-> Score(query, target_role, candidates[k])]])


(***************************************************************************)
(* JSON values of a step.  step["target"] is a dict, a string, absent/None *)
(* ("none", falsy) or some other truthy value such as a list ("bad").      *)
(* A dict is held as the IntentTarget its keys give; {} is the dict with   *)
(* no populated key.                                                       *)
(***************************************************************************)
TDict(t) == [kind |-> "dict", f |-> t, s |-> <<>>]
TStr(s) == [kind |-> "str", f |-> EmptyTarget, s |-> s]
TNone == [kind |-> "none", f |-> EmptyTarget, s |-> <<>>]
TBad == [kind |-> "bad", f |-> EmptyTarget, s |-> <<>>]

\* Python truthiness of the value
Truthy(tv) ==
  CASE tv.kind = "dict" -> tv.f # EmptyTarget
    [] tv.kind = "str" -> tv.s # <<>>
    [] tv.kind = "none" -> FALSE
    [] OTHER -> TRUE

\* step["fallback_targets"]: a list of targets, absent/None, a number, or a
\* JSON object with n keys
FbList(items) == [kind |-> "list", items |-> items, n |-> 0]
FbNone == [kind |-> "none", items |-> <<>>, n |-> 0]
FbNum(n) == [kind |-> "num", items |-> <<>>, n |-> n]
FbObj(n) == [kind |-> "obj", items |-> <<>>, n |-> n]

\* step.get("fallback_targets") or []
FbOrEmpty(fb) ==
  IF fb.kind = "none" \/ (fb.kind \in {"num", "obj"} /\ fb.n = 0) THEN FbList(<<>>) ELSE fb

kRole == <<"r","o","l","e">>
kName == <<"n","a","m","e">>
kLabel == <<"l","a","b","e","l">>
kText == <<"t","e","x","t">>
kPlaceholder == <<"p","l","a","c","e","h","o","l","d","e","r">>
kTitle == <<"t","i","t","l","e">>
kTestid == <<"t","e","s","t","i","d">>
kSelector == <<"s","e","l","e","c","t","o","r">>
kId == <<"i","d">>

StartsWith(d, prefix) ==
  Len(prefix) <= Len(d) /\ SubSeq(d, 1, Len(prefix)) = prefix

HasChar(d, c) == \E i \in 1..Len(d) : d[i] = c

\* d.startswith(("role=", "id=", "text=", "label=", "placeholder=", "title=")) or "[" in d
SelectorLike(d) ==
  \/ \E k \in {kRole, kId, kText, kLabel, kPlaceholder, kTitle} : StartsWith(d, k \o <<"=">>)
  \/ HasChar(d, "[")

\* d.split(c)
RECURSIVE SplitBy(_, _)
SplitBy(d, c) ==
  IF ~HasChar(d, c) THEN <<d>>
  ELSE LET i == SetMin({k \in 1..Len(d) : d[k] = c})
       IN  <<SubSeq(d, 1, i - 1)>> \o SplitBy(SubSeq(d, i + 1, Len(d)), c)

\* v.strip().strip('"').strip("'") on a value without outer blanks
RECURSIVE StripChar(_, _)
StripChar(v, c) ==
  IF v # <<>> /\ Head(v) = c THEN StripChar(Tail(v), c)
  ELSE IF v # <<>> /\ v[Len(v)] = c THEN StripChar(SubSeq(v, 1, Len(v) - 1), c)
  ELSE v

\* re.findall of  (\w+)=([^\s=]+(?:[\s][^\s=]+)*)(?=\s+\w+=|$)  on a text of
\* single-blank separated words, each holding at most one "=": a word
\* key=value opens a pair, the words without "=" after it extend its value
RECURSIVE KvPairs(_, _)
KvPairs(words, open) ==
  IF words = <<>> THEN open
  ELSE LET w == Head(words)
       IN  IF HasChar(w, "=")
           THEN LET kv == SplitBy(w, "=")
                IN  IF kv[1] # <<>> /\ kv[2] # <<>>
                    THEN KvPairs(Tail(words), Append(open, [k |-> kv[1], v |-> kv[2]]))
                    ELSE KvPairs(Tail(words), open)
           ELSE IF open = <<>> \/ w = <<>> THEN KvPairs(Tail(words), open)
           ELSE KvPairs(Tail(words),
                  [open EXCEPT ![Len(open)].v = @ \o <<" ">> \o w])

\* data.get(key) of the dict built from the pairs (a later pair overrides)
KvGet(pairs, key) ==
  LET hits == {i \in 1..Len(pairs) : pairs[i].k = key}
  IN  IF hits = {} THEN <<>>
      ELSE StripChar(StripChar(pairs[SetMax(hits)].v, "\""), "'")

\* the target of a string that is not selector-like: its key=value pairs,
\* or the whole string as text
FromPairs(d, kv_pairs) ==
  IF kv_pairs # <<>>
  THEN [ok |-> TRUE,
        t |-> IntentTarget(KvGet(kv_pairs, kRole), KvGet(kv_pairs, kName),
                KvGet(kv_pairs, kLabel), KvGet(kv_pairs, kText),
                KvGet(kv_pairs, kPlaceholder), KvGet(kv_pairs, kTitle),
                KvGet(kv_pairs, kTestid), KvGet(kv_pairs, kSelector))]
  ELSE [ok |-> TRUE, t |-> [EmptyTarget EXCEPT !.text = d]]

\* IntentTarget.from_dict: ok = FALSE stands for the AttributeError of
\* d.get on a value that is neither a str nor a dict
from_dict(tv) ==
  IF tv.kind = "str"
  THEN IF SelectorLike(tv.s)
       THEN [ok |-> TRUE, t |-> [EmptyTarget EXCEPT !.selector = tv.s]]
       ELSE FromPairs(tv.s, KvPairs(SplitBy(tv.s, " "), <<>>))
  ELSE IF tv.kind = "dict" THEN [ok |-> TRUE, t |-> tv.f]
  ELSE [ok |-> FALSE, t |-> EmptyTarget]


(***************************************************************************)
(* ZeroTouchAgent._capture_selector and _execute_action.                   *)
(***************************************************************************)
\* the selector the script of _capture_selector computes for an element
CaptureSel(e) == IF e.testid # <<>> THEN TestIdSelectorDq(e.testid) ELSE e.css

\* mutant: the captured selector replaces the whole target
CapturedTarget_Replace(tv, selector) == TDict([EmptyTarget EXCEPT !.selector = selector])

\* the value of step["target"] after _capture_selector: a dict gets the key
\* "selector"; any other value is replaced by {"selector": .., "text": str(..)}
CapturedTarget(tv, selector) ==
  IF tv.kind = "dict" THEN TDict([tv.f EXCEPT !.selector = selector])
  ELSE TDict([EmptyTarget EXCEPT !.selector = selector, !.text = tv.s])

ErrorText(kind, t) == [kind |-> kind, at |-> t]

NoError == ErrorText("none", EmptyTarget)

Outcome(raised, err, captured, selector, dispatched) ==
  [raised |-> raised, err |-> err, captured |-> captured, selector |-> selector,
   dispatched |-> dispatched]

PageActions == {"navigate", "go_back", "go_forward", "wait"}

target_actions ==
  {"click", "double_click", "hover", "fill", "check", "select_option", "scroll",
   "assert_text", "assert_visible"}

\* loc.first of the locator resolve returned
FirstOf(dom, found) == dom[found.loc[1]]

\* after resolver.resolve(target): capture the selector of the element
\* found, then act on it (act_ok: the backend performs the action without
\* error); assert_text also compares the element's text
ActOn(step, target, dom, found, act_ok) ==
  IF ~found.ok THEN Outcome(TRUE, ErrorText("not_resolved", target), FALSE, <<>>, FALSE)
  ELSE IF ~act_ok
  THEN Outcome(TRUE, ErrorText("action_failed", target), TRUE, CaptureSel(FirstOf(dom, found)), TRUE)
  ELSE IF step.action = "assert_text" /\ ~IsSubstr(step.value, FirstOf(dom, found).text)
  THEN Outcome(TRUE, ErrorText("text_mismatch", target), TRUE, CaptureSel(FirstOf(dom, found)), TRUE)
  ELSE Outcome(FALSE, NoError, TRUE, CaptureSel(FirstOf(dom, found)), TRUE)

\* fd = IntentTarget.from_dict(..): its AttributeError, or resolve and act
OnTarget(step, fd, dom, act_ok) ==
  IF ~fd.ok THEN Outcome(TRUE, ErrorText("bad_target", EmptyTarget), FALSE, <<>>, FALSE)
  ELSE ActOn(step, fd.t, dom, resolve(fd.t, dom), act_ok)

OnElement(step, tv, dom, act_ok) == OnTarget(step, from_dict(tv), dom, act_ok)

\* one call of _execute_action on the page content dom
execute_action(step, dom, act_ok) ==
  IF step.action \in PageActions
  THEN Outcome(~act_ok, IF act_ok THEN NoError ELSE ErrorText("action_failed", EmptyTarget),
               FALSE, <<>>, TRUE)
  ELSE IF step.action = "press_key"
  THEN IF Truthy(step.target)
       THEN OnElement(step, step.target, dom, act_ok)
       ELSE Outcome(~act_ok, IF act_ok THEN NoError ELSE ErrorText("action_failed", EmptyTarget),
                    FALSE, <<>>, TRUE)
  ELSE IF step.action \in target_actions
  THEN OnElement(step, IF Truthy(step.target) THEN step.target ELSE TDict(EmptyTarget), dom, act_ok)
  ELSE Outcome(TRUE, ErrorText("unsupported", EmptyTarget), FALSE, <<>>, FALSE)

\* the step after the call: its target as _capture_selector left it
StepAfter(step, out) ==
  IF out.captured THEN [step EXCEPT !.target = CapturedTarget(step.target, out.selector)]
  ELSE step

(***************************************************************************)
(* _heal_step: the query, and one retry with object identity.  target_data *)
(* is a reference to the target the step held on entry; alias tells which  *)
(* object step["target"] currently is: that one ("orig"), element k of the *)
(* step's fallback list ("fb") or an object of its own ("fresh").          *)
(***************************************************************************)
IsQuote(c) == c \in {"'", "\""}

\* re.search(r"name=['\"](.+?)['\"]", selector): the group, or <<>> for no match
NameInSelector(sel) ==
  LET opens == {p \in 1..Len(sel) :
                  /\ p + 5 <= Len(sel)
                  /\ SubSeq(sel, p, p + 4) = kName \o <<"=">>
                  /\ IsQuote(sel[p + 5])
                  /\ \E q \in (p + 7)..Len(sel) : IsQuote(sel[q])}
  IN  IF opens = {} THEN <<>>
      ELSE LET p == SetMin(opens)
               q == SetMin({k \in (p + 7)..Len(sel) : IsQuote(sel[k])})
           IN  SubSeq(sel, p + 6, q - 1)

HealQuery(t) ==
  LET query == SearchTerm(t)
  IN  IF query = <<>> /\ t.selector # <<>>
      THEN IF NameInSelector(t.selector) # <<>> THEN NameInSelector(t.selector) ELSE t.selector
      ELSE query

AliasOrig == [to |-> "orig", k |-> 0]
AliasFresh == [to |-> "fresh", k |-> 0]
AliasFb(k) == [to |-> "fb", k |-> k]

\* self._execute_action(page, resolver, step) inside _heal_step: a captured
\* selector is written into the dict that step["target"] refers to
Retried(out, step, td, al) ==
  LET inplace == out.captured /\ step.target.kind = "dict"
      nt == CapturedTarget(step.target, out.selector)
      fb == IF inplace /\ al.to = "fb"
            THEN [step.fallback_targets EXCEPT !.items[al.k] = nt]
            ELSE step.fallback_targets
  IN  [out |-> out,
       step |-> IF out.captured THEN [step EXCEPT !.target = nt, !.fallback_targets = fb] ELSE step,
       target_data |-> IF inplace /\ al.to = "orig" THEN nt ELSE td,
       alias |-> IF out.captured /\ ~inplace THEN AliasFresh ELSE al]

HealRetry(step, td, al, dom, act_ok) ==
  Retried(execute_action(step, dom, act_ok), step, td, al)

(***************************************************************************)
(* extract_json_object.  Strings are sequences of characters; an index is  *)
(* counted from 1, and 0 stands for the -1 of str.find and str.rfind.      *)
(***************************************************************************)
\* the grave accent (U+0060) of a code fence is written as a caret here
cGrave == "^"
sFence == <<cGrave, cGrave, cGrave>>
sFenceJson == sFence \o <<"j","s","o","n">>

IsSpace(c) == c \in {" ", "\n"}

\* str.strip()
RECURSIVE lstrip(_)
lstrip(s) == IF s # <<>> /\ IsSpace(Head(s)) THEN lstrip(Tail(s)) ELSE s

RECURSIVE rstrip(_)
rstrip(s) == IF s # <<>> /\ IsSpace(s[Len(s)]) THEN rstrip(SubSeq(s, 1, Len(s) - 1)) ELSE s

strip(s) == rstrip(lstrip(s))

\* str.replace(old, ""): the occurrences of old, leftmost first, not overlapping
RECURSIVE remove(_, _)
remove(s, old) ==
  IF Len(s) < Len(old) THEN s
  ELSE IF SubSeq(s, 1, Len(old)) = old THEN remove(SubSeq(s, Len(old) + 1, Len(s)), old)
  ELSE <<Head(s)>> \o remove(Tail(s), old)

\* str.find(c) and str.rfind(c)
find(s, c) == IF \E i \in DOMAIN s : s[i] = c THEN SetMin({i \in DOMAIN s : s[i] = c}) ELSE 0
rfind(s, c) == IF \E i \in DOMAIN s : s[i] = c THEN SetMax({i \in DOMAIN s : s[i] = c}) ELSE 0

\* text.strip().replace(fence + "json", "").replace(fence, "").strip()
Unfenced(text) == strip(remove(remove(strip(text), sFenceJson), sFence))

ValueError == [ok |-> FALSE, s |-> <<>>]
Returned(s) == [ok |-> TRUE, s |-> s]

\* the string returned, or the ValueError; t[start:end + 1] is empty when
\* end is before start
extract_json_object(text) ==
  LET unfenced == Unfenced(text)
      start == find(unfenced, "{")
      end == rfind(unfenced, "}")
  IN  IF start = 0 \/ end = 0 THEN ValueError
      ELSE Returned(SubSeq(unfenced, start, end))

(***************************************************************************)
(* Pools the inputs are drawn from.                                        *)
(***************************************************************************)
MaxEls == 2

elLogin == Element(rButton, sLogin, <<>>, sLogin, <<>>, <<>>, <<>>, sCssA, {}, TRUE)
elLoginHidden == Element(rButton, sLogin, <<>>, sLogin, <<>>, <<>>, <<>>, sCssB, {}, FALSE)
elSignIn == Element(rButton, sSignIn, <<>>, sSignIn, <<>>, <<>>, <<>>, sCssC, {}, TRUE)
elSearch == Element(rTextbox, <<>>, sUser, <<>>, sSearch, <<>>, sT1, sCssD, {sInputQ}, TRUE)
elBanner == Element(<<>>, <<>>, <<>>, sWelcome, <<>>, sTip, <<>>, sCssE, {}, TRUE)

\* an input whose placeholder is the text of the banner
elHint == Element(rTextbox, <<>>, <<>>, <<>>, sWelcome, <<>>, <<>>, sCssH, {}, TRUE)

ElementPool == {elLogin, elLoginHidden, elSignIn, elSearch, elBanner, elHint}

\* every page of at most MaxEls elements of the pool
SeqsUpTo(S, n) == UNION {[1..k -> S] : k \in 0..n}

ResolveDoms == SeqsUpTo(ElementPool, MaxEls)

ResolveTargets ==
  {IntentTarget(r, n, l, t, p, ti, te, s) :
     r \in {<<>>, rButton, rTextbox}, n \in {<<>>, sLogin}, l \in {<<>>, sUser},
     t \in {<<>>, sWelcome}, p \in {<<>>, sSearch}, ti \in {<<>>, sTip},
     te \in {<<>>, sT1}, s \in {<<>>, sCssC}}

(***************************************************************************)
(* Inputs of execute: the scenario, the configuration, the page contents   *)
(* the browser may show and the answers of the completion service.         *)
(***************************************************************************)
MaxSteps == 2
MaxPages == 3
MaxAttempts == 2
MaxRunAttempts == 1

tLogin == TDict([EmptyTarget EXCEPT !.role = rButton, !.name = sLogin])
tSignIn == TDict([EmptyTarget EXCEPT !.role = rButton, !.name = sSignIn])
tWelcome == TDict([EmptyTarget EXCEPT !.text = sWelcome])

Step(action, value, target, fallback_targets) ==
  [step |-> 0, action |-> action, value |-> value, target |-> target,
   fallback_targets |-> fallback_targets]

\* the page contents: nothing, a Login button, a Sign In button and a banner
dEmpty == <<>>
dLogin == <<elLogin>>
dSignIn == <<elSignIn, elBanner>>

MainDoms == {dEmpty, dLogin, dSignIn}

\* a browser showing the pages ds; reliable: every call on a located element
\* and every accessibility snapshot succeeds
World(ds, reliable) ==
  [doms |-> ds,
   acts |-> IF reliable THEN {TRUE} ELSE BOOLEAN,
   snaps |-> IF reliable THEN {TRUE} ELSE BOOLEAN]

\* any page at any moment, any call may fail
AnyWorld == World(MainDoms, FALSE)

\* the scenario navigate, click the Login button, assert the Welcome text
E2EScenario ==
  <<Step("navigate", <<>>, TNone, FbNone),
    Step("click", <<>>, tLogin, FbNone),
    Step("assert_visible", <<>>, tWelcome, FbNone)>>

elHelp == Element(rButton, sHelp, <<>>, sHelp, <<>>, <<>>, <<>>, sCssF, {}, TRUE)
elHeading == Element(rHeading, sWelcome, <<>>, sWelcome, <<>>, <<>>, <<>>, sCssG, {}, TRUE)

\* the pages that scenario runs on: one page for the whole run, showing
\* nothing, a Sign In button, a Sign In button and a Help button in either
\* order, or no button at all
E2EDoms ==
  {dEmpty, dSignIn, <<elSignIn, elHelp, elBanner>>, <<elHelp, elSignIn, elBanner>>,
   <<elHeading>>}

E2EWorlds == {World({d}, reliable) : d \in E2EDoms, reliable \in BOOLEAN}

\* heal_obj of the completion service, or its failure (no JSON object, ...)
LlmError == [kind |-> "error", target |-> TNone, fallback_targets |-> FbNone]
HealObj(target, fallback_targets) ==
  [kind |-> "obj", target |-> target, fallback_targets |-> fallback_targets]

LlmResponses ==
  {LlmError, HealObj(tSignIn, FbList(<<tSignIn, tLogin>>)), HealObj(TNone, FbNone),
   HealObj(tSignIn, FbNum(5))}

\* the steps of the scenarios: every action of the vocabulary, one outside
\* it, and for click the shapes a target and a fallback list can take
StepPool ==
  {Step(a, <<>>, TNone, FbNone) :
     a \in {"navigate", "go_back", "go_forward", "wait", "press_key", "drag"}}
  \cup {Step(a, <<>>, tLogin, FbNone) :
     a \in {"press_key", "scroll", "double_click", "hover", "fill", "check", "select_option"}}
  \cup {Step("click", <<>>, tg, fb) :
     tg \in {tLogin, TStr(sLogin), TNone, TBad},
     fb \in {FbNone, FbList(<<tSignIn>>)}}
  \cup {Step("click", <<>>, tLogin, FbObj(1)),
        Step("assert_visible", <<>>, tWelcome, FbNone),
        Step("assert_text", sWelcome, tWelcome, FbList(<<tSignIn>>))}

\* the scenarios of one step, over the whole pool
HealScenarios == {<<s>> : s \in StepPool}

\* the steps of the scenarios of several steps: a page action, a healable
\* action and a target action that is not healable
RunPool ==
  {Step("navigate", <<>>, TNone, FbNone),
   Step("click", <<>>, tLogin, FbNone),
   Step("scroll", <<>>, tLogin, FbNone)}

Scenarios == SeqsUpTo(RunPool, MaxSteps)


(***************************************************************************)
(* State.  The variables of execute and _heal_step keep their names;       *)
(* rtarget, rdom, rres are the argument, page and result of the one call   *)
(* of resolve that SpecResolve makes.                                      *)
(***************************************************************************)
VARIABLES
  scenario,      \* the scenario passed to execute
  healed,        \* healed_scenario, the deep copy execute works on
  rows,          \* the execution records
  idx,           \* the loop index of execute, from 1
  pc,            \* where execute is
  max_attempts,  \* MAX_HEAL_ATTEMPTS
  heal_mode,     \* HEAL_MODE
  pages,         \* context.pages, oldest first
  page,          \* the active page of execute
  resolver,      \* the page the LocatorResolver is bound to
  pages_before,  \* len(context.pages) at the start of the step
  status,        \* the step's status
  heal_stage,    \* the step's heal_stage
  attempt,       \* the attempt of _heal_step
  target_data,   \* _heal_step: the object the step's target was on entry
  alias,         \* which object step["target"] is now
  t,             \* _heal_step: IntentTarget.from_dict(target_data)
  query,         \* _heal_step: the ranking query
  error_text,    \* the error text passed to _heal_step
  last_error,    \* the error of the most recent failed call
  entry_target,  \* the value of the step's target when _heal_step was entered
  exec_count,    \* calls of _execute_action made for the current step
  exec_on,       \* the page the most recent _execute_action resolved against
  prompt,        \* the most recent recovery request of the step
  shots,         \* screenshots requested, as <<step id, status, page>>
  world,         \* what the browser can do during the run
  rtarget, rdom, rres,
  rk_pc,         \* position of one call of rank_candidates and of its re-ranking
  rk_query, rk_role, rk_candidates,   \* the arguments of that call
  rk_scored,     \* its result
  rk_again,      \* the result of ranking rk_scored again
  cl_pc,         \* position of one candidate collection and its filtering
  cl_snapshot,   \* the accessibility tree collected from
  cl_candidates, \* the result of collect_accessibility_candidates
  cl_action,     \* the action the candidates are filtered for
  cl_filtered,   \* the result of filter_candidates_by_action
  ex_pc,         \* position of one call of extract_json_object
  ex_text,       \* the response text passed to it
  ex_result      \* what it returned or raised

mvars ==
  <<scenario, healed, rows, idx, pc, max_attempts, heal_mode, pages, page, resolver,
    pages_before, status, heal_stage, attempt, target_data, alias, t, query,
    error_text, last_error, entry_target, exec_count, exec_on, prompt, shots>>

rvars == <<rtarget, rdom, rres>>

cvars == <<cl_pc, cl_snapshot, cl_candidates, cl_action, cl_filtered>>

xvars == <<ex_pc, ex_text, ex_result>>

kvars == <<rk_pc, rk_query, rk_role, rk_candidates, rk_scored, rk_again, cvars, xvars>>

vars == <<mvars, world, rvars, kvars>>

Pending == [ok |-> FALSE, strategy |-> "pending", loc |-> <<>>]

NoPrompt == [action |-> "", failed_target |-> EmptyTarget, error |-> NoError, ranked |-> <<>>]

\* the locals of one iteration and of _heal_step, out of scope between steps
StepLocalsReset ==
  /\ status' = "PASS"
  /\ heal_stage' = "none"
  /\ attempt' = 0
  /\ target_data' = TNone
  /\ alias' = AliasOrig
  /\ t' = EmptyTarget
  /\ query' = <<>>
  /\ error_text' = NoError
  /\ last_error' = NoError
  /\ entry_target' = TNone
  /\ exec_count' = 0
  /\ prompt' = NoPrompt

\* execute has not been called
MainIdle ==
  /\ scenario = <<>> /\ healed = <<>> /\ rows = <<>> /\ idx = 1 /\ pc = "idle"
  /\ max_attempts = 0 /\ heal_mode = "off"
  /\ pages = <<1>> /\ page = 1 /\ resolver = 1 /\ pages_before = 1
  /\ status = "PASS" /\ heal_stage = "none" /\ attempt = 0
  /\ target_data = TNone /\ alias = AliasOrig /\ t = EmptyTarget /\ query = <<>>
  /\ error_text = NoError /\ last_error = NoError /\ entry_target = TNone
  /\ exec_count = 0 /\ exec_on = 0 /\ prompt = NoPrompt /\ shots = <<>>

\* rank_candidates has not been called
RankIdle ==
  /\ rk_pc = "idle" /\ rk_query = <<>> /\ rk_role = <<>> /\ rk_candidates = <<>>
  /\ rk_scored = <<>> /\ rk_again = <<>>

\* extract_json_object has not been called
ExtractIdle == ex_pc = "idle" /\ ex_text = <<>> /\ ex_result = ValueError

\* no candidates have been collected
CollectIdle ==
  /\ cl_pc = "idle" /\ cl_snapshot = SnapshotNone /\ cl_candidates = <<>>
  /\ cl_action = "" /\ cl_filtered = <<>>

InitResolve ==
  /\ world = AnyWorld
  /\ RankIdle
  /\ CollectIdle
  /\ ExtractIdle
  /\ rtarget \in ResolveTargets
  /\ rdom \in ResolveDoms
  /\ rres = Pending
  /\ MainIdle

\* one call resolver.resolve(rtarget) on the page rdom
ResolveCall ==
  /\ rres = Pending
  /\ rres' = resolve(rtarget, rdom)
  /\ UNCHANGED <<rtarget, rdom, world>>
  /\ UNCHANGED <<mvars, kvars>>

NextResolve == ResolveCall

SpecResolve == InitResolve /\ [][NextResolve]_vars

(***************************************************************************)
(* One call of rank_candidates, and a second call on its result.           *)
(***************************************************************************)
MaxCands == 3

RankQueries == {<<>>, sLog, sLogin}

RankRoles == {<<>>, rButton}

\* candidates as dicts; rank_candidates reads a missing name as ""
RankPool ==
  {[role |-> r, name |-> n] : r \in {rButton, rLink}, n \in {<<>>, sLog, sLogin, sSignIn}}

InitRank ==
  /\ rk_pc = "call"
  /\ rk_query \in RankQueries
  /\ rk_role \in RankRoles
  /\ rk_candidates \in SeqsUpTo(RankPool, MaxCands)
  /\ rk_scored = <<>> /\ rk_again = <<>>
  /\ CollectIdle
  /\ ExtractIdle
  /\ world = AnyWorld
  /\ rtarget = EmptyTarget /\ rdom = <<>> /\ rres = Pending
  /\ MainIdle

\* scored = rank_candidates(query, target_role, candidates)
RankCall ==
  /\ rk_pc = "call"
  /\ rk_scored' = rank_candidates(rk_query, rk_role, rk_candidates)
  /\ rk_pc' = "ranked"
  /\ UNCHANGED <<rk_query, rk_role, rk_candidates, rk_again, cvars, xvars, mvars, rvars, world>>

\* rank_candidates(query, target_role, scored): the result passed back in
RankAgain ==
  /\ rk_pc = "ranked"
  /\ rk_again' = rank_candidates(rk_query, rk_role, rk_scored)
  /\ rk_pc' = "reranked"
  /\ UNCHANGED <<rk_query, rk_role, rk_candidates, rk_scored, cvars, xvars, mvars, rvars, world>>

NextRank == RankCall \/ RankAgain

SpecRank == InitRank /\ [][NextRank]_vars

(***************************************************************************)
(* One candidate collection from an accessibility tree, and its filtering  *)
(* for an action.                                                          *)
(***************************************************************************)
MaxKids == 2

sPiped == <<"a","|","b">>

\* the role and name a node of the tree can carry
NodeLabels ==
  {<<r, n>> : r \in {<<>>, rButton, rImg, rTextbox, rTextarea}, n \in {<<>>, sLogin}}
    \cup {<<rButton, sPiped>>}

Leaves == {Node(l[1], l[2], <<>>) : l \in NodeLabels}

\* a node with no child or one
Subtrees == Leaves \cup {Node(l[1], l[2], <<c>>) : l \in NodeLabels, c \in Leaves}

\* page.accessibility.snapshot(): a tree under the page's root, nothing, or
\* its exception
Snapshots ==
  {Node(rWebArea, <<>>, kids) : kids \in SeqsUpTo(Subtrees, MaxKids)}
    \cup {SnapshotNone, SnapshotError}

FilterActions == {"click", "double_click", "hover", "fill", "assert_visible"}

InitCollect ==
  /\ cl_pc = "collect"
  /\ cl_snapshot \in Snapshots
  /\ cl_candidates = <<>> /\ cl_action = "" /\ cl_filtered = <<>>
  /\ RankIdle
  /\ ExtractIdle
  /\ world = AnyWorld
  /\ rtarget = EmptyTarget /\ rdom = <<>> /\ rres = Pending
  /\ MainIdle

\* candidates = collect_accessibility_candidates(page)
CollectCall ==
  /\ cl_pc = "collect"
  /\ cl_candidates' = collect_accessibility_candidates(cl_snapshot)
  /\ cl_pc' = "filter"
  /\ UNCHANGED <<cl_snapshot, cl_action, cl_filtered, mvars, rvars, world,
                 rk_pc, rk_query, rk_role, rk_candidates, rk_scored, rk_again, xvars>>

\* candidates = filter_candidates_by_action(action, candidates)
FilterCall ==
  /\ cl_pc = "filter"
  /\ \E a \in FilterActions :
       /\ cl_action' = a
       /\ cl_filtered' = filter_candidates_by_action(a, cl_candidates)
  /\ cl_pc' = "done"
  /\ UNCHANGED <<cl_snapshot, cl_candidates, mvars, rvars, world,
                 rk_pc, rk_query, rk_role, rk_candidates, rk_scored, rk_again, xvars>>

NextCollect == CollectCall \/ FilterCall

SpecCollect == InitCollect /\ [][NextCollect]_vars

(***************************************************************************)
(* One call of extract_json_object on a response text.                     *)
(***************************************************************************)
MaxPieces == 4

\* what a response is made of: braces, a letter, a blank, a line break and
\* the two code fences the function removes
Pieces == {<<"{">>, <<"}">>, <<"a">>, <<" ">>, <<"\n">>, sFence, sFenceJson}

RECURSIVE Flatten(_)
Flatten(ps) == IF ps = <<>> THEN <<>> ELSE Head(ps) \o Flatten(Tail(ps))

ResponseTexts == {Flatten(ps) : ps \in SeqsUpTo(Pieces, MaxPieces)}

InitExtract ==
  /\ ex_pc = "call"
  /\ ex_text \in ResponseTexts
  /\ ex_result = ValueError
  /\ RankIdle
  /\ CollectIdle
  /\ world = AnyWorld
  /\ rtarget = EmptyTarget /\ rdom = <<>> /\ rres = Pending
  /\ MainIdle

\* extract_json_object(res["message"]["content"])
ExtractCall ==
  /\ ex_pc = "call"
  /\ ex_result' = extract_json_object(ex_text)
  /\ ex_pc' = "done"
  /\ UNCHANGED <<ex_text, rk_pc, rk_query, rk_role, rk_candidates, rk_scored, rk_again,
                 cvars, mvars, rvars, world>>

NextExtract == ExtractCall

SpecExtract == InitExtract /\ [][NextExtract]_vars

(***************************************************************************)
(* The caller's scenario.  healed_scenario = json.loads(json.dumps(scenario)) *)
(* is a tree of new objects, so a write into the copy never shows in the   *)
(* caller's list; the values of a scenario are JSON values, which the      *)
(* round trip returns equal.                                               *)
(***************************************************************************)
\* mutant: healed_scenario = scenario, both names for one list
CallerScenario_Shared(caller, copy) == copy

\* the caller's list after a write that left the copy as copy
CallerScenario(caller, copy) == caller

(***************************************************************************)
(* execute.                                                                *)
(***************************************************************************)
\* execute(scenario) up to its loop, with MAX_HEAL_ATTEMPTS at most n
Execute(S, n, W) ==
  /\ scenario \in S
  /\ world \in W
  /\ healed = scenario
  /\ rows = <<>>
  /\ idx = 1
  /\ pc = "loop"
  /\ max_attempts \in 0..n
  /\ heal_mode \in {"on", "off"}
  /\ pages = <<1>> /\ page = 1 /\ resolver = 1 /\ pages_before = 1
  /\ status = "PASS" /\ heal_stage = "none" /\ attempt = 0
  /\ target_data = TNone /\ alias = AliasOrig /\ t = EmptyTarget /\ query = <<>>
  /\ error_text = NoError /\ last_error = NoError /\ entry_target = TNone
  /\ exec_count = 0 /\ exec_on = 0 /\ prompt = NoPrompt /\ shots = <<>>
  /\ rtarget = EmptyTarget /\ rdom = <<>> /\ rres = Pending
  /\ RankIdle
  /\ CollectIdle
  /\ ExtractIdle

\* scenarios of up to MaxSteps steps
Init == Execute(Scenarios, MaxRunAttempts, {AnyWorld})

\* scenarios of one step, of every shape
InitHeal == Execute(HealScenarios, MaxAttempts, {AnyWorld})

\* the three-step scenario on one fixed page
InitE2E == Execute({E2EScenario}, MaxAttempts, E2EWorlds)

\* mutant: navigate is healed too
HealableActions_WithNavigate ==
  {"click", "fill", "check", "hover", "select_option", "assert_text", "assert_visible",
   "press_key", "navigate"}

\* mutant: scroll is healed too
HealableActions_WithScroll ==
  {"click", "fill", "check", "hover", "select_option", "assert_text", "assert_visible",
   "press_key", "scroll"}

\* the actions whose failure execute hands to _heal_step
HealableActions ==
  {"click", "fill", "check", "hover", "select_option", "assert_text", "assert_visible",
   "press_key"}

\* whether a call opens a new page: only an action that reached the page can
CanOpen(out) ==
  IF out.dispatched /\ Len(pages) < MaxPages THEN BOOLEAN ELSE {FALSE}

\* context.pages after a call that may have opened a new page
PagesAfter(out, opens) ==
  IF out.dispatched /\ opens /\ Len(pages) < MaxPages
  THEN Append(pages, Len(pages) + 1) ELSE pages

\* for idx, step in enumerate(healed_scenario, start=1): the step id, the
\* locals of the iteration and pages_before
StepBegin ==
  /\ pc = "loop"
  /\ idx <= Len(healed)
  /\ healed' = [healed EXCEPT ![idx].step = IF @ # 0 THEN @ ELSE idx]
  /\ pages_before' = Len(pages)
  /\ status' = "PASS"
  /\ heal_stage' = "none"
  /\ pc' = "exec"
  /\ scenario' = CallerScenario(scenario, healed')
  /\ UNCHANGED <<rows, idx, max_attempts, heal_mode, pages, page, resolver,
                 attempt, target_data, alias, t, query, error_text, last_error,
                 entry_target, exec_count, exec_on, prompt, shots, rvars, world, kvars>>

\* try: self._execute_action(page, resolver, step)  except Exception as e: ...
ExecPrimary ==
  /\ pc = "exec"
  /\ \E d \in world.doms :
       \E out \in {execute_action(healed[idx], d, act_ok) : act_ok \in world.acts} :
         \E opens \in CanOpen(out) :
           /\ healed' = [healed EXCEPT ![idx] = StepAfter(@, out)]
           /\ pages' = PagesAfter(out, opens)
           /\ exec_count' = exec_count + 1
           /\ exec_on' = resolver
           /\ error_text' = out.err
           /\ last_error' = out.err
           /\ IF ~out.raised THEN pc' = "post" /\ status' = status
              ELSE IF healed[idx].action \in HealableActions
              THEN pc' = "heal" /\ status' = status
              ELSE pc' = "post" /\ status' = "FAIL"
  /\ scenario' = CallerScenario(scenario, healed')
  /\ UNCHANGED <<rows, idx, max_attempts, heal_mode, page, resolver, pages_before,
                 heal_stage, attempt, target_data, alias, t, query, entry_target,
                 prompt, shots, rvars, world, kvars>>

\* mutant: one attempt more than MAX_HEAL_ATTEMPTS
InRange_OneMore(n) == n <= max_attempts + 1

\* for attempt in range(1, MAX_HEAL_ATTEMPTS + 1)
InRange(n) == n <= max_attempts

\* _heal_step up to its loop: target_data, t and the query; from_dict of a
\* target that is neither a str nor a dict raises out of execute
HealEnter ==
  /\ pc = "heal"
  /\ \E fd \in {from_dict(healed[idx].target)} :
         IF ~fd.ok
         THEN /\ pc' = "crashed"
              /\ UNCHANGED <<target_data, alias, t, query, entry_target, attempt>>
         ELSE /\ target_data' = healed[idx].target
              /\ entry_target' = healed[idx].target
              /\ alias' = AliasOrig
              /\ t' = fd.t
              /\ query' = HealQuery(fd.t)
              /\ attempt' = 1
              /\ pc' = IF InRange(1) THEN "fallback" ELSE "exhaust"
  /\ UNCHANGED <<scenario, healed, rows, idx, max_attempts, heal_mode, pages, page, resolver,
                 pages_before, status, heal_stage, error_text, last_error, exec_count,
                 exec_on, prompt, shots, rvars, world, kvars>>

\* mutant: the next attempt starts at the candidate search
NextAttempt_SkipsFallback ==
  /\ attempt' = attempt + 1
  /\ pc' = IF InRange(attempt + 1) THEN "candidate" ELSE "exhaust"

\* the end of an attempt: the next one, or the end of the loop
NextAttempt ==
  /\ attempt' = attempt + 1
  /\ pc' = IF InRange(attempt + 1) THEN "fallback" ELSE "exhaust"

\* mutant: a retry runs against the newest page of the context
HealPage_Newest(current, ps) == ps[Len(ps)]

\* self._heal_step(page, resolver, step, ..): every retry of _heal_step uses
\* the resolver execute passed in
HealPage(current, ps) == current

\* what a retry leaves behind, and where a successful one returns to
AfterRetry(r, opens, stage) ==
  /\ healed' = [healed EXCEPT ![idx] = r.step]
  /\ target_data' = r.target_data
  /\ alias' = r.alias
  /\ pages' = PagesAfter(r.out, opens)
  /\ exec_count' = exec_count + 1
  /\ exec_on' = HealPage(resolver, pages)
  /\ last_error' = IF r.out.raised THEN r.out.err ELSE last_error
  /\ heal_stage' = IF r.out.raised THEN heal_stage ELSE stage

\* mutant: the fallback outcome does not name the attempt
FallbackStage_Unnumbered(n) == "fallback_1"

\* return True, f"fallback_{attempt}"
FallbackStage(n) == "fallback_" \o ToString(n)

\* sub-stage 1: fallbacks = step.get("fallback_targets") or []; the fallback
\* of this attempt, if there is one, becomes the target and the action is retried
HealFallback ==
  /\ pc = "fallback"
  /\ \E fallbacks \in {FbOrEmpty(healed[idx].fallback_targets)} :
     \E size \in {IF fallbacks.kind = "list" THEN Len(fallbacks.items) ELSE fallbacks.n} :
         IF fallbacks.kind = "num" \/ (fallbacks.kind = "obj" /\ attempt <= size)
         THEN \* len() of a number, or indexing a JSON object by position
              /\ pc' = "crashed"
              /\ UNCHANGED <<healed, target_data, alias, pages, exec_count, exec_on,
                             last_error, heal_stage, attempt>>
         ELSE IF attempt <= size
         THEN \E d \in world.doms :
                \E r \in {HealRetry([healed[idx] EXCEPT !.target = fallbacks.items[attempt]],
                                    target_data, AliasFb(attempt), d, act_ok) :
                          act_ok \in world.acts} :
                  \E opens \in CanOpen(r.out) :
                    /\ AfterRetry(r, opens, FallbackStage(attempt))
                    /\ pc' = IF r.out.raised THEN "candidate" ELSE "post"
                    /\ UNCHANGED attempt
         ELSE /\ pc' = "candidate"
              /\ UNCHANGED <<healed, target_data, alias, pages, exec_count, exec_on,
                             last_error, heal_stage, attempt>>
  /\ prompt' = NoPrompt
  /\ scenario' = CallerScenario(scenario, healed')
  /\ UNCHANGED <<rows, idx, max_attempts, heal_mode, page, resolver, pages_before,
                 status, t, query, error_text, entry_target, shots, rvars, world, kvars>>

\* mutant: the model recovery runs whatever HEAL_MODE is
LlmEnabled_Always == TRUE

\* if HEAL_MODE == "on"
LlmEnabled == heal_mode = "on"

\* the ranked candidates of the page content d (snap_ok: the snapshot is taken)
\* mutant: the query and the preferred role follow the step's current target
Ranked_CurrentTarget(action, d, snap_ok) ==
  rank_candidates(HealQuery(from_dict(healed[idx].target).t), from_dict(healed[idx].target).t.role,
    filter_candidates_by_action(action,
      collect_accessibility_candidates(IF snap_ok THEN Snapshot(d) ELSE SnapshotError)))

Ranked(action, d, snap_ok) ==
  rank_candidates(query, t.role,
    filter_candidates_by_action(action,
      collect_accessibility_candidates(IF snap_ok THEN Snapshot(d) ELSE SnapshotError)))

\* mutant: the candidate is installed by its name alone
CandidateTarget_NameOnly(c) == TDict([EmptyTarget EXCEPT !.name = c.name])

\* {"role": ranked[0]["role"], "name": ranked[0]["name"]}
CandidateTarget(c) == TDict([EmptyTarget EXCEPT !.role = c.role, !.name = c.name])

\* sub-stage 2: the top-ranked candidate becomes the target and the action
\* is retried
HealCandidate ==
  /\ pc = "candidate"
  /\ \E d \in world.doms, snap_ok \in world.snaps :
       \E ranked \in {Ranked(healed[idx].action, d, snap_ok)} :
              IF ranked # <<>>
              THEN \E r \in {HealRetry([healed[idx] EXCEPT !.target = CandidateTarget(ranked[1])],
                                       target_data, AliasFresh, d, act_ok) :
                             act_ok \in world.acts} :
                   \E opens \in CanOpen(r.out) :
                   /\ AfterRetry(r, opens, "candidate_search")
                   /\ IF ~r.out.raised THEN pc' = "post" /\ UNCHANGED attempt
                      ELSE IF LlmEnabled THEN pc' = "llm" /\ UNCHANGED attempt
                      ELSE NextAttempt
              ELSE /\ UNCHANGED <<healed, target_data, alias, pages, exec_count, exec_on,
                                  last_error, heal_stage>>
                   /\ IF LlmEnabled THEN pc' = "llm" /\ UNCHANGED attempt
                      ELSE NextAttempt
  /\ prompt' = NoPrompt
  /\ scenario' = CallerScenario(scenario, healed')
  /\ UNCHANGED <<rows, idx, max_attempts, heal_mode, page, resolver, pages_before,
                 status, t, query, error_text, entry_target, shots, rvars, world, kvars>>

CANDIDATE_TOP_N == 8

TopN(ranked) == SubSeq(ranked, 1, IF Len(ranked) < CANDIDATE_TOP_N THEN Len(ranked) ELSE CANDIDATE_TOP_N)

\* build_llm_heal_prompt(action, original_target_dict, error_text, page.url, ranked)
build_llm_heal_prompt(action, failed_target, err, ranked) ==
  [action |-> action, failed_target |-> failed_target, error |-> err, ranked |-> TopN(ranked)]

\* step["target"] = heal_obj.get("target") or target_data
\* step["fallback_targets"] = heal_obj.get("fallback_targets") or []
Proposed(step, resp, td) ==
  [step EXCEPT !.target = IF Truthy(resp.target) THEN resp.target ELSE td,
               !.fallback_targets = FbOrEmpty(resp.fallback_targets)]

\* sub-stage 3 (HEAL_MODE on): the recovery request is sent; the proposed
\* target and fallback list are installed and the action is retried
HealLlm ==
  /\ pc = "llm"
  /\ \E d \in world.doms :
       \E sent \in {build_llm_heal_prompt(healed[idx].action, t, error_text,
                                           Ranked(healed[idx].action, d, snap_ok)) :
                    snap_ok \in world.snaps} :
       \E resp \in LlmResponses :
           /\ prompt' = sent
           /\ IF resp.kind = "error"
              THEN /\ UNCHANGED <<healed, target_data, alias, pages, exec_count, exec_on,
                                  last_error, heal_stage>>
                   /\ NextAttempt
              ELSE \E r \in {HealRetry(Proposed(healed[idx], resp, target_data), target_data,
                                       IF Truthy(resp.target) THEN AliasFresh ELSE AliasOrig,
                                       d, act_ok) : act_ok \in world.acts} :
                   \E opens \in CanOpen(r.out) :
                   /\ AfterRetry(r, opens, "llm_heal")
                   /\ IF ~r.out.raised THEN pc' = "post" /\ UNCHANGED attempt
                      ELSE NextAttempt
  /\ scenario' = CallerScenario(scenario, healed')
  /\ UNCHANGED <<rows, idx, max_attempts, heal_mode, page, resolver, pages_before,
                 status, t, query, error_text, entry_target, shots, rvars, world, kvars>>

\* after the loop: step["target"] = target_data; return False, "heal_failed"
HealExhausted ==
  /\ pc = "exhaust"
  /\ healed' = [healed EXCEPT ![idx].target = target_data]
  /\ alias' = AliasOrig
  /\ heal_stage' = "heal_failed"
  /\ status' = "FAIL"
  /\ pc' = "post"
  /\ prompt' = NoPrompt
  /\ scenario' = CallerScenario(scenario, healed')
  /\ UNCHANGED <<rows, idx, max_attempts, heal_mode, pages, page, resolver,
                 pages_before, attempt, target_data, t, query, error_text, last_error,
                 entry_target, exec_count, exec_on, shots, rvars, world, kvars>>

\* mutant: the active page never changes
ActivePage_Stale(ps, before, current) == current

\* if len(context.pages) > pages_before: page = context.pages[-1]
ActivePage(ps, before, current) ==
  IF Len(ps) > before THEN ps[Len(ps)] ELSE current

\* mutant: the loop goes on after a FAIL
Break_Never(st) == FALSE

\* if status == "FAIL": break
Break(st) == st = "FAIL"

\* mutant: the screenshot is taken before the switch to a new page
Evidence_BeforeSwitch(sid, st, ps, before, current) == <<sid, st, current>>

\* evidence = f"step_{sid}_{status.lower()}.png"; page.screenshot(...)
Evidence(sid, st, ps, before, current) == <<sid, st, ActivePage(ps, before, current)>>

\* mutant: the record of a step always says PASS
Row_AlwaysPass(step, stage, st) ==
  [step |-> step.step, action |-> step.action, heal_stage |-> stage, status |-> "PASS"]

\* rows.append({"step": sid, "action": action, "heal_stage": heal_stage, "status": status, ..})
Row(step, stage, st) ==
  [step |-> step.step, action |-> step.action, heal_stage |-> stage, status |-> st]

\* the rest of the iteration: the switch to a new page, the screenshot, the
\* record, and the break on FAIL
StepEnd ==
  /\ pc = "post"
  /\ page' = ActivePage(pages, pages_before, page)
  /\ resolver' = ActivePage(pages, pages_before, resolver)
  /\ shots' = Append(shots, Evidence(healed[idx].step, status, pages, pages_before, page))
  /\ rows' = Append(rows, Row(healed[idx], heal_stage, status))
  /\ IF Break(status) THEN pc' = "close" /\ idx' = idx
     ELSE pc' = "loop" /\ idx' = idx + 1
  /\ StepLocalsReset
  /\ UNCHANGED <<scenario, healed, max_attempts, heal_mode, pages, pages_before,
                 exec_on, rvars, world, kvars>>

\* browser.close(); return rows, healed_scenario
Return ==
  /\ pc = "close" \/ (pc = "loop" /\ idx > Len(healed))
  /\ pc' = "returned"
  /\ UNCHANGED <<scenario, healed, rows, idx, max_attempts, heal_mode, pages, page, resolver,
                 pages_before, status, heal_stage, attempt, target_data, alias, t, query,
                 error_text, last_error, entry_target, exec_count, exec_on, prompt,
                 shots, rvars, world, kvars>>

Next ==
  \/ StepBegin \/ ExecPrimary \/ HealEnter \/ HealFallback \/ HealCandidate
  \/ HealLlm \/ HealExhausted \/ StepEnd \/ Return

Spec == Init /\ [][Next]_vars

SpecHeal == InitHeal /\ [][Next]_vars

SpecE2E == InitE2E /\ [][Next]_vars

ResolveCalled == rres # Pending

(***************************************************************************)
(* Claims about resolve, checked under SpecResolve.                        *)
(***************************************************************************)
\* some probe other than the raw selector finds a visible element
SemanticHit(tg, d) ==
  \/ ByRoleName(tg, d).ok \/ ByRoleOnly(tg, d).ok
  \/ BySearchHeuristic(tg, d).ok \/ ByTerm(tg, d).ok
  \/ ByTestId(tg, d).ok \/ ByPlaceholder(tg, d).ok

\* C7 as stated: whenever the role + accessible-name query yields a visible
\* element, resolve returns that role+name locator, whatever other fields
\* the target has populated.
C7_Original ==
  (ResolveCalled /\ ByRoleName(rtarget, rdom).ok)
    => (rres.ok /\ rres.loc = ByRoleName(rtarget, rdom).loc)

\* C7 amended: whenever the role + accessible-name query yields a visible
\* element and the target's raw selector (if any) yields no visible element,
\* resolve returns the role+name match and no other strategy's result.
C7_RoleNameAfterSelector ==
  (ResolveCalled /\ ByRoleName(rtarget, rdom).ok /\ ~BySelector(rtarget, rdom).ok)
    => rres = ByRoleName(rtarget, rdom)

\* C7 witness: role+name is returned although the text-term probes match
\* too and the test-id probe of the same target would find another element
C7_Witness ==
  /\ ResolveCalled /\ rres.strategy = "role_name"
  /\ rtarget.selector # <<>> /\ ~BySelector(rtarget, rdom).ok
  /\ ByTerm(rtarget, rdom).ok
  /\ ByTestId(rtarget, rdom).ok /\ ByTestId(rtarget, rdom).loc # rres.loc

\* C8 as stated: the raw selector is probed last, so resolve returns the raw
\* selector's result only when no semantic strategy finds a visible element.
C8_Original ==
  (ResolveCalled /\ rres.strategy = "selector") => ~SemanticHit(rtarget, rdom)

\* C8 amended: the raw selector is probed first: whenever the target's raw
\* selector yields a visible element resolve returns that element, even if
\* role+name, label, text, placeholder or test-id also match; the semantic
\* strategies are reached only after the raw selector has failed.
C8_SelectorFirst ==
  /\ (ResolveCalled /\ BySelector(rtarget, rdom).ok) => rres = BySelector(rtarget, rdom)
  /\ (ResolveCalled /\ rres.ok /\ rres.strategy # "selector") => ~BySelector(rtarget, rdom).ok

\* C8 witness: a target with a matching raw selector and a matching
\* role+name resolves through the raw selector, to another element
C8_Witness ==
  /\ ResolveCalled /\ rres.strategy = "selector"
  /\ ByRoleName(rtarget, rdom).ok /\ ByRoleName(rtarget, rdom).loc # rres.loc

\* C9: an Intent Target with every field empty is never resolved: resolve
\* raises on every page and returns no element handle.
C9_EmptyTargetNotResolved ==
  (ResolveCalled /\ rtarget = EmptyTarget) => (~rres.ok /\ rres.loc = <<>>)

\* C9 witness: the empty target has been tried on a page with visible elements
C9_Witness ==
  /\ ResolveCalled /\ rtarget = EmptyTarget /\ ~rres.ok
  /\ \E i \in 1..Len(rdom) : rdom[i].visible

(***************************************************************************)
(* Claims about execute and _heal_step.                                    *)
(***************************************************************************)
\* execute is inside _heal_step
InController == pc \in {"heal", "fallback", "candidate", "llm", "exhaust"}

\* execute has left its loop
LoopLeft == pc \in {"close", "returned"}

\* C1: once a step is recorded FAIL the loop stops; no later step is executed
\* or recorded, so at most one record is FAIL and it is the last one.
C1_FailIsLast ==
  /\ \A i \in DOMAIN rows : rows[i].status = "FAIL" => i = Len(rows)
  /\ (rows # <<>> /\ rows[Len(rows)].status = "FAIL") => (LoopLeft /\ idx = Len(rows))
  /\ Len(rows) <= Len(scenario)

\* a scenario of two steps returned one FAIL record: step 2 was never run
C1_Witness ==
  /\ pc = "returned"
  /\ Len(scenario) = 2
  /\ Len(rows) = 1
  /\ rows[1].status = "FAIL"
  /\ healed[2] = scenario[2]

\* C2 (as stated): whenever _heal_step ends in heal_failed, the step's target
\* equals in value the target the step held when _heal_step was entered.
C2_Restored ==
  (pc = "post" /\ heal_stage = "heal_failed") => healed[idx].target = entry_target

\* C3: a step's action is executed at most 1 + 3 * MAX_HEAL_ATTEMPTS times
\* (one retry per sub-stage per attempt); with MAX_HEAL_ATTEMPTS = 0 there is
\* no retry at all.
C3_RetryBudget ==
  /\ exec_count <= 1 + 3 * max_attempts
  /\ InController => exec_count <= 1 + 3 * (attempt - 1) + 3
  /\ max_attempts = 0 => exec_count <= 1

\* the whole budget of two attempts is spent: seven executions of one step
C3_Witness ==
  /\ max_attempts = 2
  /\ exec_count = 7
  /\ heal_stage = "heal_failed"

\* C4 (as stated): execute returns normally for every scenario, with one
\* record for each step up to and including the first unrecovered failure; no
\* step failure escapes execute as an exception.
C4_ReturnsNormally ==
  /\ pc # "crashed"
  /\ pc = "returned" =>
       /\ \A i \in DOMAIN rows : rows[i].step = i
       /\ (Len(rows) = Len(scenario) \/ rows[Len(rows)].status = "FAIL")

\* the actions of the vocabulary that _execute_action runs on the page alone
NeverHealed == {"navigate", "wait", "go_back", "go_forward"}

\* the fixed vocabulary of _execute_action
Vocabulary == PageActions \cup {"press_key"} \cup target_actions

\* C5: a failing step whose action is navigate, wait, go_back, go_forward or
\* outside the vocabulary never enters _heal_step; it is recorded FAIL with
\* heal_stage none and the loop stops.
C5_PageActionsNotHealed ==
  /\ InController => (healed[idx].action \notin NeverHealed /\ healed[idx].action \in Vocabulary)
  /\ (pc = "post" /\ last_error # NoError /\ healed[idx].action \in NeverHealed \cup {"drag"})
       => (status = "FAIL" /\ heal_stage = "none" /\ exec_count = 1)
  /\ \A i \in DOMAIN rows :
       (healed[i].action \in NeverHealed \/ healed[i].action \notin Vocabulary)
         => /\ rows[i].heal_stage = "none"
            /\ rows[i].status = "FAIL" => (LoopLeft /\ i = Len(rows))

\* a failed navigate (or an unsupported action) recorded FAIL and not
\* healed although healing is on
C5_Witness ==
  /\ pc = "returned"
  /\ heal_mode = "on" /\ max_attempts = 2
  /\ Len(rows) = 1
  /\ rows[1].action \in {"navigate", "drag"}
  /\ rows[1].status = "FAIL"
  /\ rows[1].heal_stage = "none"

C10_ContextSwitch ==
  [][/\ pc = "post" =>
          /\ page' = (IF Len(pages) > pages_before THEN pages[Len(pages)] ELSE page)
          /\ resolver' = page'
     /\ pc # "post" => (page' = page /\ resolver' = resolver)
     /\ exec_count' > exec_count => (exec_on' = resolver /\ resolver = page)]_vars

\* step 1 opened pages 2 and 3; step 2 has run against page 3
C10_Witness ==
  /\ idx = 2
  /\ pc = "post"
  /\ Len(rows) = 1
  /\ pages = <<1, 2, 3>>
  /\ page = 3 /\ resolver = 3
  /\ exec_on = 3

(***************************************************************************)
(* Claims about the sub-stages of _heal_step.                              *)
(***************************************************************************)
\* a retry of this step has just returned without an exception
RetrySucceeded == exec_count' = exec_count + 1 /\ heal_stage' # "none"

\* C11: in each attempt the sub-stages run in the order fallback, candidate
\* search, model recovery; a sub-stage follows only a failed or skipped one of
\* the same attempt, the first successful retry ends _heal_step at once, and
\* the next attempt starts, at its fallback sub-stage, only after the last
\* sub-stage of this attempt has failed.
C11_StageOrder ==
  [][/\ pc = "heal" => pc' \in {"fallback", "exhaust", "crashed"}
     /\ pc = "fallback" =>
          /\ attempt' = attempt
          /\ pc' \in {"candidate", "post", "crashed"}
          /\ pc' = "post" <=> RetrySucceeded
     /\ pc = "candidate" =>
          /\ pc' = "post" <=> RetrySucceeded
          /\ pc' # "post" =>
               IF heal_mode = "on"
               THEN pc' = "llm" /\ attempt' = attempt
               ELSE pc' \in {"fallback", "exhaust"} /\ attempt' = attempt + 1
     /\ pc = "llm" =>
          /\ pc' = "post" <=> RetrySucceeded
          /\ pc' # "post" => (pc' \in {"fallback", "exhaust"} /\ attempt' = attempt + 1)
     /\ (pc \in {"fallback", "candidate", "llm"} /\ pc' = "post") =>
          (attempt' = attempt /\ status' = "PASS")
     /\ pc' = "fallback" => InRange(attempt')
     /\ (pc # "exhaust" /\ pc' = "exhaust") => ~InRange(attempt')]_vars

\* the model recovery of attempt 2 succeeded after the six retries before it
\* had failed
C11_Witness ==
  /\ pc = "post"
  /\ attempt = 2
  /\ heal_stage = "llm_heal"
  /\ exec_count = 7
  /\ status = "PASS"

\* the score rank_candidates gave the candidate that is now the step's target
InstalledScore ==
  Score(query, t.role,
        [role |-> healed[idx].target.f.role, name |-> healed[idx].target.f.name])

\* C12 (as stated): the candidate search installs the top-ranked candidate
\* and retries only if its score exceeds the minimum-confidence threshold; a
\* top candidate of score 0 is never installed, whatever the threshold is.
C12_ScoreAboveThreshold ==
  (pc = "post" /\ heal_stage = "candidate_search") => InstalledScore > 0

\* C13: with HEAL_MODE off no recovery request is built or sent, llm_heal is
\* never the stage of a step or of a record, and each attempt retries at most
\* twice (fallback, candidate search).
C13_NoModelWhenOff ==
  heal_mode = "off" =>
    /\ pc # "llm"
    /\ prompt = NoPrompt
    /\ heal_stage # "llm_heal"
    /\ \A i \in DOMAIN rows : rows[i].heal_stage # "llm_heal"
    /\ exec_count <= 1 + 2 * max_attempts

\* with HEAL_MODE off two attempts have failed: one fallback retry and two
\* candidate retries
C13_Witness ==
  /\ heal_mode = "off"
  /\ max_attempts = 2
  /\ pc = "post"
  /\ heal_stage = "heal_failed"
  /\ exec_count = 4

(***************************************************************************)
(* Claims about whole runs of the three-step scenario on one fixed page.   *)
(***************************************************************************)
\* the page of a run whose browser shows one page throughout
ThePage == CHOOSE d \in world.doms : TRUE

\* every call on a located element and every snapshot succeeds
Reliable == world.acts = {TRUE} /\ world.snaps = {TRUE}

VisibleButtons(d) == {i \in DOMAIN d : d[i].role = rButton /\ d[i].visible}

HasButton(d, name) == \E i \in VisibleButtons(d) : d[i].name = name

ShowsText(d, text) == \E i \in DOMAIN d : d[i].visible /\ d[i].text = text

\* the page of the run has a Sign In button, no Login button and the Welcome
\* text, every browser call succeeds and the run is over
SignInRunOver ==
  /\ scenario = E2EScenario
  /\ Cardinality(world.doms) = 1
  /\ Reliable
  /\ HasButton(ThePage, sSignIn)
  /\ ~HasButton(ThePage, sLogin)
  /\ ShowsText(ThePage, sWelcome)
  /\ max_attempts >= 1
  /\ pc = "returned"

ClickHopeless ==
  /\ scenario = E2EScenario
  /\ Cardinality(world.doms) = 1
  /\ heal_mode = "off"
  /\ ~resolve(tLogin.f, ThePage).ok
  /\ \A i \in DOMAIN ThePage : ThePage[i].role \notin ClickRoles

\* C15: a click step that cannot be resolved, with no fallback targets, no
\* action-compatible candidate and healing mode off, is recorded heal_failed
\* and FAIL, and no later step of the scenario is executed.
C15_HealFailedAborts ==
  ClickHopeless =>
    /\ idx <= 2
    /\ Len(rows) <= 2
    /\ healed[3] = scenario[3]
    /\ \A i \in DOMAIN shots : shots[i][1] # 3
    /\ Len(rows) = 2 =>
         /\ rows[2].heal_stage = "heal_failed"
         /\ rows[2].status = "FAIL"
         /\ LoopLeft

C15_Witness ==
  /\ ClickHopeless
  /\ ThePage = <<elHeading>>
  /\ max_attempts = 2
  /\ pc = "returned"
  /\ Len(rows) = 2
  /\ rows[2].heal_stage = "heal_failed" /\ rows[2].status = "FAIL"

(***************************************************************************)
(* Claims about rank_candidates and similarity.                            *)
(***************************************************************************)
RankReturned == rk_pc \in {"ranked", "reranked"}

\* the orders in which n candidates can be returned
Orders(n) == {p \in [1..n -> 1..n] : \A i, j \in 1..n : p[i] = p[j] => i = j}

\* C16: rank_candidates returns every input candidate exactly once, with its
\* score, by non-increasing score, and candidates of equal score keep the
\* order they have in the input list.
C16_RankStable ==
  RankReturned =>
    /\ Len(rk_scored) = Len(rk_candidates)
    /\ \E p \in Orders(Len(rk_candidates)) :
         /\ \A k \in DOMAIN rk_scored :
              /\ rk_scored[k].role = rk_candidates[p[k]].role
              /\ rk_scored[k].name = rk_candidates[p[k]].name
              /\ rk_scored[k].score = Score(rk_query, rk_role, rk_candidates[p[k]])
         /\ \A i, j \in DOMAIN rk_scored :
              i < j => /\ rk_scored[i].score >= rk_scored[j].score
                       /\ rk_scored[i].score = rk_scored[j].score => p[i] < p[j]

C16_Witness ==
  /\ rk_pc = "ranked"
  /\ rk_query = sLog /\ rk_role = rButton
  /\ rk_candidates = <<[role |-> rButton, name |-> sSignIn], [role |-> rButton, name |-> <<>>],
                       [role |-> rLink, name |-> sLogin]>>
  /\ rk_scored = <<[role |-> rLink, name |-> sLogin, score |-> 850],
                   [role |-> rButton, name |-> sSignIn, score |-> 600],
                   [role |-> rButton, name |-> <<>>, score |-> 600]>>

\* C17: ranking the same candidates with the same query and preferred role
\* again gives the same sequence of candidates and scores, and ranking the
\* result of rank_candidates leaves it as it is.
C17_RankIdempotent ==
  /\ RankReturned => rk_scored = rank_candidates(rk_query, rk_role, rk_candidates)
  /\ rk_pc = "reranked" => rk_again = rk_scored

C17_Witness ==
  /\ rk_pc = "reranked"
  /\ rk_query = sLogin /\ rk_role = rButton
  /\ rk_candidates = <<[role |-> rButton, name |-> sSignIn], [role |-> rLink, name |-> sLog],
                       [role |-> rButton, name |-> <<>>]>>
  /\ rk_scored # rk_candidates
  /\ rk_scored[2].score = rk_scored[3].score
  /\ rk_again = rk_scored

\* one of the two texts contains the other, letter case aside
Contains(a, b) == IsSubstr(Lower(a), Lower(b)) \/ IsSubstr(Lower(b), Lower(a))

\* C18 as stated: with a non-empty query, every candidate whose name contains
\* the query or is contained in it has a score of at least 0.85.
C18_Original ==
  (RankReturned /\ rk_query # <<>>) =>
    \A k \in DOMAIN rk_scored :
      Contains(rk_query, rk_scored[k].name) => rk_scored[k].score >= 850

\* C18: with a non-empty query, every candidate with a non-empty name that
\* contains the query or is contained in it has a score of at least 0.85; a
\* candidate with an empty name scores 0, or 0.6 when its role is preferred.
C18_ContainmentFloor ==
  (RankReturned /\ rk_query # <<>>) =>
    \A k \in DOMAIN rk_scored :
      IF rk_scored[k].name = <<>>
      THEN rk_scored[k].score =
             IF rk_role # <<>> /\ rk_scored[k].role = rk_role THEN 600 ELSE 0
      ELSE Contains(rk_query, rk_scored[k].name) => rk_scored[k].score >= 850

C18_Witness ==
  /\ rk_pc = "ranked"
  /\ rk_query = sLog /\ rk_role = <<>>
  /\ rk_candidates = <<[role |-> rButton, name |-> sLogin]>>
  /\ rk_scored = <<[role |-> rButton, name |-> sLogin, score |-> 850]>>

(***************************************************************************)
(* Claims about the evidence and the healed scenario of a run.             *)
(***************************************************************************)
\* an iteration of the loop of execute is under way
InStep == pc \in {"exec", "post"} \/ InController

\* C19: every executed step has exactly one screenshot request, made with the
\* step's final status on the page the controller holds after the switch to a
\* new page, at the moment the step's record is appended: none while the step
\* is under way, and the next step begins with one per step before it.
C19_OneEvidencePerStep ==
  /\ Len(shots) = Len(rows)
  /\ \A i \in DOMAIN shots :
       shots[i][1] = rows[i].step /\ shots[i][2] = rows[i].status
  /\ (InStep \/ pc = "loop") => Len(shots) = idx - 1
  /\ pc = "close" => Len(shots) = idx
  /\ Len(shots) >= 1 => shots[Len(shots)][3] = page

C19_Witness ==
  /\ pc = "returned"
  /\ Len(shots) = 2
  /\ shots[1] = <<1, "PASS", 2>>
  /\ rows[1].heal_stage = "candidate_search"
  /\ shots[2] = <<2, "FAIL", 2>>

\* step i passed at its first try
FirstTry(i) ==
  i \in DOMAIN rows /\ rows[i].heal_stage = "none" /\ rows[i].status = "PASS"

\* the loop has not reached step i
NeverExecuted(i) == i > idx \/ (i = idx /\ pc = "loop")

\* the selectors _capture_selector can compute on the pages of the run
Selectors == UNION {{CaptureSel(d[k]) : k \in DOMAIN d} : d \in world.doms}

\* C20 as stated: a step that passed at its first try and a step that was
\* never executed are, in the healed scenario, identical to the input step.
C20_Original ==
  \A i \in DOMAIN healed : (FirstTry(i) \/ NeverExecuted(i)) => healed[i] = scenario[i]

\* C20: a step that was never executed is identical to the input step; a step
\* that passed at its first try has the input's action, value and fallback
\* targets, carries its position as step id when the input had none, and has
\* the input's target, where a target action has written the selector of the
\* element it acted on into the key selector.
C20_HealedFrame ==
  \A i \in DOMAIN healed :
    /\ NeverExecuted(i) => healed[i] = scenario[i]
    /\ FirstTry(i) =>
         /\ healed[i].action = scenario[i].action
         /\ healed[i].value = scenario[i].value
         /\ healed[i].fallback_targets = scenario[i].fallback_targets
         /\ healed[i].step = IF scenario[i].step # 0 THEN scenario[i].step ELSE i
         /\ IF scenario[i].action \in target_actions
            THEN /\ healed[i].target.kind = "dict" /\ scenario[i].target.kind = "dict"
                 /\ [healed[i].target.f EXCEPT !.selector = <<>>]
                      = [scenario[i].target.f EXCEPT !.selector = <<>>]
                 /\ healed[i].target.f.selector \in Selectors \cup {scenario[i].target.f.selector}
            ELSE healed[i].target = scenario[i].target

C20_Witness ==
  /\ pc = "returned"
  /\ Len(scenario) = 2
  /\ scenario[1].action = "click" /\ scenario[1].target = tLogin /\ scenario[1].step = 0
  /\ FirstTry(1)
  /\ healed[1].step = 1
  /\ healed[1].target = TDict([tLogin.f EXCEPT !.selector = sCssA])
  /\ rows[2].status = "FAIL"

(***************************************************************************)
(* Further claims about _heal_step.                                        *)
(***************************************************************************)
\* C21 (as stated): no exception raised in a sub-stage of an attempt of
\* _heal_step reaches execute, and heal_failed is reported only after the
\* attempts 1 .. MAX_HEAL_ATTEMPTS have all been run.
C21_FailuresContained ==
  /\ ~(pc = "crashed" /\ attempt >= 1)
  /\ heal_stage = "heal_failed" => attempt = max_attempts + 1

\* the fallback list the scenario declares for the current step
Declared == FbOrEmpty(scenario[idx].fallback_targets)

\* C22 (as stated): at attempt n the fallback sub-stage retries the action if
\* and only if the list declared in the scenario has an element at index
\* n - 1, and the target it installs is that element (with the selector a
\* retry may have captured into it).
C22_DeclaredFallback ==
  [][(pc = "fallback" /\ pc' # "crashed") =>
       /\ exec_count' = exec_count + 1
            <=> (Declared.kind = "list" /\ attempt <= Len(Declared.items))
       /\ exec_count' = exec_count + 1 =>
            /\ Declared.kind = "list" /\ attempt <= Len(Declared.items)
            /\ healed'[idx].target \in
                 {Declared.items[attempt]}
                   \cup {CapturedTarget(Declared.items[attempt], sel) : sel \in Selectors}]_vars

\* C23 (as stated): the recovery request carries the error text of the most
\* recent failed call of the step: once a retry has failed, that retry's
\* error and not the error of the primary failure.
C23_LatestErrorSent ==
  [][pc = "llm" => prompt'.error = last_error]_vars

\* the step was recovered by _heal_step
Recovered == pc = "post" /\ status = "PASS" /\ heal_stage # "none"

\* the attempt number an outcome carries, 0 if it carries none
StageAttempt(stage) ==
  IF \E n \in 1..max_attempts : stage = "fallback_" \o ToString(n)
  THEN CHOOSE n \in 1..max_attempts : stage = "fallback_" \o ToString(n)
  ELSE 0

\* C24 as stated: the outcome of a recovery carries the number of the attempt
\* in which it succeeded, whichever sub-stage succeeded.
C24_Original == Recovered => StageAttempt(heal_stage) = attempt

\* C24: the outcome of a recovery names the sub-stage that succeeded; it
\* carries the attempt number only for the fallback sub-stage (fallback_<n>),
\* while candidate_search and llm_heal are the same in every attempt.
C24_OutcomeNamesStage ==
  [][(pc \in {"fallback", "candidate", "llm"} /\ pc' = "post") =>
       /\ status' = "PASS"
       /\ pc = "fallback" => heal_stage' = "fallback_" \o ToString(attempt)
       /\ pc = "candidate" => heal_stage' = "candidate_search"
       /\ pc = "llm" => heal_stage' = "llm_heal"]_vars

\* the candidate search succeeded in the second attempt: the outcome is the
\* one of a success in the first
C24_Witness ==
  /\ Recovered
  /\ heal_stage = "candidate_search"
  /\ attempt = 2

\* IntentTarget.from_dict of the target the step had when _heal_step was entered
EntryT == from_dict(entry_target).t

\* what ranking against the entry target can give on the pages of the run
EntryRanked ==
  {rank_candidates(HealQuery(EntryT), EntryT.role,
     filter_candidates_by_action(healed[idx].action,
       collect_accessibility_candidates(snapshot))) :
   snapshot \in {Snapshot(d) : d \in world.doms} \cup {SnapshotError}}

\* C25: in every attempt the query and the preferred role are those of the
\* target the step had on entry to _heal_step: the candidate installed and
\* the candidate list of the recovery request come from a ranking against
\* them, whatever target an earlier sub-stage installed.
C25_QueryOfEntryTarget ==
  [][/\ pc \in {"fallback", "candidate", "llm"} =>
          /\ t = EntryT /\ query = HealQuery(EntryT)
          /\ t' = t /\ query' = query
     /\ pc = "llm" => \E ranked \in EntryRanked : prompt'.ranked = TopN(ranked)
     /\ (pc = "candidate" /\ exec_count' = exec_count + 1) =>
          \E ranked \in EntryRanked :
            /\ ranked # <<>>
            /\ healed'[idx].target \in
                 {CandidateTarget(ranked[1])}
                   \cup {CapturedTarget(CandidateTarget(ranked[1]), sel) : sel \in Selectors}]_vars

\* a request sent after the fallback and the candidate had been installed:
\* its candidate list is scored against the entry target's text
C25_Witness ==
  /\ prompt.ranked = <<[role |-> rButton, name |-> sSignIn, score |-> 0]>>
  /\ entry_target = tWelcome
  /\ scenario[1].fallback_targets = FbList(<<tSignIn>>)
  /\ exec_count >= 3
  /\ query = sWelcome

(***************************************************************************)
(* Further claims about execute, the candidates, resolve and the ranking.  *)
(***************************************************************************)
\* C26 (as stated): a failing step whose action is a click-family action
\* (double_click among them), fill, check, hover, select_option or an
\* assertion is never recorded FAIL with heal_stage none.
C26_HealedBeforeFail ==
  \A i \in DOMAIN rows :
    (rows[i].action \in {"click", "double_click", "hover", "fill", "check", "select_option",
                         "assert_visible", "assert_text"}
       /\ rows[i].status = "FAIL")
      => rows[i].heal_stage # "none"

Candidate(role, name) == [role |-> role, name |-> name]

\* C27 as stated: for click, double_click and hover only candidates with
\* role button, link, menuitem, tab, checkbox or radio are kept, for fill only
\* those with role textbox, searchbox or combobox, in input order.
C27_Original ==
  cl_pc = "done" =>
    /\ cl_action \in {"click", "double_click", "hover"} =>
         cl_filtered = SelectSeq(cl_candidates,
           LAMBDA c : c.role \in {rButton, rLink, rMenuitem, rTab, rCheckbox, rRadio})
    /\ cl_action = "fill" =>
         cl_filtered = SelectSeq(cl_candidates,
           LAMBDA c : c.role \in {rTextbox, rSearchbox, rCombobox})

\* C27: filter_candidates_by_action keeps, in input order, for click,
\* double_click and hover exactly the candidates with role button, link,
\* menuitem, tab, checkbox, radio or img, for fill exactly those with role
\* textbox, searchbox, combobox, spinbutton or textarea, and for any other
\* action every candidate.
C27_FilterRoles ==
  cl_pc = "done" =>
    cl_filtered =
      IF cl_action \in {"click", "double_click", "hover"}
      THEN SelectSeq(cl_candidates,
             LAMBDA c : c.role \in {rButton, rLink, rMenuitem, rTab, rCheckbox, rRadio, rImg})
      ELSE IF cl_action = "fill"
      THEN SelectSeq(cl_candidates,
             LAMBDA c : c.role \in {rTextbox, rSearchbox, rCombobox, rSpinbutton, rTextarea})
      ELSE cl_candidates

\* a click keeps the button and the image and drops the text box
C27_Witness ==
  /\ cl_pc = "done"
  /\ cl_action = "click"
  /\ cl_candidates = <<Candidate(rButton, sLogin), Candidate(rTextbox, sLogin),
                       Candidate(rImg, sLogin)>>
  /\ cl_filtered = <<Candidate(rButton, sLogin), Candidate(rImg, sLogin)>>

\* the role and name of every node of a forest, a node before its children
\* and before the siblings after it
RECURSIVE PreOrder(_)
PreOrder(trees) ==
  IF trees = <<>> THEN <<>>
  ELSE <<Candidate(Head(trees).role, Head(trees).name)>>
         \o PreOrder(Head(trees).children) \o PreOrder(Tail(trees))

\* the nodes of the collected tree that have a role and a name
Named ==
  IF cl_snapshot = SnapshotError THEN <<>>
  ELSE SelectSeq(PreOrder(<<cl_snapshot>>), LAMBDA c : c.role # <<>> /\ c.name # <<>>)

FirstAt(seq, x) == CHOOSE i \in DOMAIN seq : seq[i] = x /\ \A k \in 1..(i - 1) : seq[k] # x

\* C28: collect_accessibility_candidates returns one candidate for each
\* distinct (role, name) pair of a node that has both a role and a name,
\* nothing else, no pair twice, in the depth-first pre-order of the pairs'
\* first nodes.
C28_CollectDistinctPairs ==
  cl_pc \in {"filter", "done"} =>
    /\ \A i \in DOMAIN cl_candidates : \E k \in DOMAIN Named : Named[k] = cl_candidates[i]
    /\ \A k \in DOMAIN Named : \E i \in DOMAIN cl_candidates : cl_candidates[i] = Named[k]
    /\ \A i, j \in DOMAIN cl_candidates :
         i < j => /\ cl_candidates[i] # cl_candidates[j]
                  /\ FirstAt(Named, cl_candidates[i]) < FirstAt(Named, cl_candidates[j])

\* a pair met again after another pair keeps the place of its first node;
\* a pair whose name contains the separator of the key is kept apart
C28_Witness ==
  /\ cl_pc = "filter"
  /\ cl_snapshot = Node(rWebArea, <<>>,
       <<Node(rButton, sLogin, <<Node(rButton, sPiped, <<>>)>>),
         Node(<<>>, sLogin, <<Node(rButton, sLogin, <<>>)>>)>>)
  /\ cl_candidates = <<Candidate(rButton, sLogin), Candidate(rButton, sPiped)>>

\* a resolve call that reaches the role-only probe: the target has a role
\* and a name, the raw selector found nothing visible and the first element
\* of the role + name query is not visible
ReachesRoleOnly ==
  /\ ResolveCalled
  /\ rtarget.role # <<>> /\ rtarget.name # <<>>
  /\ ~BySelector(rtarget, rdom).ok
  /\ ~ByRoleName(rtarget, rdom).ok

OfRole == {i \in DOMAIN rdom : rdom[i].role = rtarget.role}

RoleOnlyReturned == rres.ok /\ rres.strategy = "role_only"

NameScore(k) == Round3(similarity(rk_query, rk_candidates[k].name))

ScoredAs(k, sc) ==
  \E n \in DOMAIN rk_scored :
    /\ rk_scored[n].role = rk_candidates[k].role
    /\ rk_scored[n].name = rk_candidates[k].name
    /\ rk_scored[n].score = sc

Preferred(k) == rk_role # <<>> /\ rk_candidates[k].role = rk_role

\* C30: rank_candidates gives a candidate of the preferred role at least
\* 0.6 and never less than its name alone would score; a candidate of
\* another role, and every candidate when no role is preferred, gets exactly
\* the similarity of the query and its name, rounded to three places.
C30_RoleFloor ==
  RankReturned =>
    /\ Len(rk_scored) = Len(rk_candidates)
    /\ \A n \in DOMAIN rk_scored : \E k \in DOMAIN rk_candidates :
         /\ rk_scored[n].role = rk_candidates[k].role
         /\ rk_scored[n].name = rk_candidates[k].name
         /\ IF Preferred(k)
            THEN /\ rk_scored[n].score >= 600
                 /\ rk_scored[n].score >= NameScore(k)
                 /\ rk_scored[n].score \in {600, NameScore(k)}
            ELSE rk_scored[n].score = NameScore(k)
    /\ \A k \in DOMAIN rk_candidates :
         ScoredAs(k, IF Preferred(k) /\ NameScore(k) < 600 THEN 600 ELSE NameScore(k))

\* the same name under the preferred role and under another: 0.6 and 0.5
C30_Witness ==
  /\ rk_pc = "ranked"
  /\ rk_query = sLogin /\ rk_role = rButton
  /\ rk_candidates = <<[role |-> rLink, name |-> sSignIn], [role |-> rButton, name |-> sSignIn]>>
  /\ rk_scored = <<[role |-> rButton, name |-> sSignIn, score |-> 600],
                   [role |-> rLink, name |-> sSignIn, score |-> 500]>>

(***************************************************************************)
(* Further claims about the sub-stages, the records and the run.           *)
(***************************************************************************)
\* the page content d exposes an element that can be a candidate for the
\* action: visible, with a role and a name, of a role the action takes
Offers(d, action) ==
  \E i \in DOMAIN d :
    /\ d[i].visible /\ d[i].role # <<>> /\ d[i].name # <<>>
    /\ action \in {"click", "double_click", "hover"} =>
         d[i].role \in {rButton, rLink, rMenuitem, rTab, rCheckbox, rRadio, rImg}
    /\ action = "fill" =>
         d[i].role \in {rTextbox, rSearchbox, rCombobox, rSpinbutton, rTextarea}

\* the candidate search ends without a retry: the step, the stage and the
\* status stay, and the model recovery or the next attempt follows
MovesOn ==
  /\ healed' = healed /\ exec_count' = exec_count
  /\ heal_stage' = heal_stage /\ status' = status /\ pages' = pages
  /\ IF heal_mode = "on" THEN pc' = "llm" /\ attempt' = attempt
     ELSE /\ attempt' = attempt + 1
          /\ pc' = IF attempt + 1 <= max_attempts THEN "fallback" ELSE "exhaust"

\* C31: when no page the browser can show offers a candidate for the
\* action, or the snapshot fails, the candidate search makes no retry,
\* leaves the step as it was, raises nothing, and the controller goes on
\* with the model recovery (HEAL_MODE on) or the next attempt; a retry is
\* made only when some page offers a candidate, and always when every page
\* does and the snapshot cannot fail.
C31_EmptyCandidatesMoveOn ==
  [][pc = "candidate" =>
       /\ pc' # "crashed"
       /\ (\A d \in world.doms : ~Offers(d, healed[idx].action)) => MovesOn
       /\ exec_count' = exec_count => MovesOn
       /\ exec_count' # exec_count =>
            /\ exec_count' = exec_count + 1
            /\ \E d \in world.doms : Offers(d, healed[idx].action)
       /\ ((\A d \in world.doms : Offers(d, healed[idx].action)) /\ world.snaps = {TRUE})
            => exec_count' = exec_count + 1]_vars

\* click on a page that shows a heading only: after the first attempt the
\* action was executed once, the target is the scenario's, no model is asked
C31_Witness ==
  /\ world.doms = {<<elHeading>>}
  /\ idx = 2 /\ pc = "fallback" /\ attempt = 2 /\ heal_mode = "off"
  /\ exec_count = 1
  /\ healed[2].target = tLogin
  /\ heal_stage = "none" /\ status = "PASS"

\* C32: extract_json_object either raises, or returns a string that begins
\* with '{' and ends with '}': the part of the text, fences removed, from
\* its first '{' to its last '}'.
C32_SpanOrError ==
  (ex_pc = "done" /\ ex_result.ok) =>
    /\ Len(ex_result.s) >= 2
    /\ Head(ex_result.s) = "{"
    /\ ex_result.s[Len(ex_result.s)] = "}"

\* a resolve call in which the raw selector, role + name, role only and the
\* search-box selectors all found nothing visible
PastRole ==
  /\ ResolveCalled
  /\ ~BySelector(rtarget, rdom).ok /\ ~ByRoleName(rtarget, rdom).ok
  /\ ~ByRoleOnly(rtarget, rdom).ok /\ ~BySearchHeuristic(rtarget, rdom).ok

\* the probe of one attribute of the elements for the search term
TermProbe(strategy, field) ==
  IF SearchTerm(rtarget) = <<>> THEN Miss
  ELSE Probe(rdom, strategy,
             Locate(rdom, {i \in DOMAIN rdom : ContainsCI(rdom[i][field], SearchTerm(rtarget))}))

TermAsSelector ==
  IF SearchTerm(rtarget) = <<>> THEN Miss
  ELSE Probe(rdom, "term_selector",
             Locate(rdom, {i \in DOMAIN rdom : MatchesSelector(rdom[i], SearchTerm(rtarget))}))

\* of two probes of the order that both find a visible element, the later
\* one is never the one returned
EarlierWins(order) ==
  \A j, k \in DOMAIN order : (j < k /\ order[j].ok /\ order[k].ok) => rres # order[k]

\* C33 as stated: form-label before visible-text, visible-text before
\* placeholder, placeholder before test-id.
C33_Original ==
  PastRole =>
    EarlierWins(<<TermProbe("label", "label"), TermProbe("text", "text"),
                  TermProbe("placeholder_term", "placeholder"),
                  ByPlaceholder(rtarget, rdom), ByTestId(rtarget, rdom)>>)

\* the probes after role + name in the order of the code
CodeOrder ==
  <<TermProbe("label", "label"), TermProbe("title", "title"),
    TermProbe("placeholder_term", "placeholder"), TermProbe("text", "text"),
    TermAsSelector, ByTestId(rtarget, rdom), ByPlaceholder(rtarget, rdom)>>

\* C33 amended: after role + name, resolve probes with the search term
\* (name, else text, else label, else title) the form label, then the
\* title, then the placeholder, then the visible text, then the term as a
\* selector; after these the test-id, and last the target's placeholder.
\* The handle returned is the one of the first of these that finds a
\* visible element.
C33_ProbeOrder ==
  PastRole =>
    /\ EarlierWins(CodeOrder)
    /\ \A k \in DOMAIN CodeOrder :
         (CodeOrder[k].ok /\ \A j \in 1..(k - 1) : ~CodeOrder[j].ok) => rres = CodeOrder[k]
    /\ (\A k \in DOMAIN CodeOrder : ~CodeOrder[k].ok) => ~rres.ok

\* the term Welcome is the text of the banner and the placeholder of the
\* input: the input is returned
C33_Witness ==
  /\ PastRole
  /\ rdom = <<elBanner, elHint>>
  /\ SearchTerm(rtarget) = sWelcome
  /\ TermProbe("text", "text").ok
  /\ rres = Hit("placeholder_term", <<2>>)

\* the stages that name a recovery
RecoveryStages ==
  {"candidate_search", "llm_heal"} \cup {"fallback_" \o ToString(n) : n \in 1..max_attempts}

GoodRecord(r) ==
  /\ r.status \in {"PASS", "FAIL"}
  /\ r.heal_stage \in RecoveryStages \cup {"none", "heal_failed"}
  /\ r.heal_stage \in RecoveryStages => r.status = "PASS"
  /\ r.heal_stage = "heal_failed" => r.status = "FAIL"
  /\ r.status = "FAIL" => r.heal_stage \in {"heal_failed", "none"}

\* C34: every record has status PASS or FAIL and a heal_stage among none,
\* fallback_n with 1 <= n <= MAX_HEAL_ATTEMPTS, candidate_search, llm_heal
\* and heal_failed; a record with a recovery stage says PASS; the record of
\* a step says FAIL exactly when the stage is heal_failed, or the stage is
\* none and the step's action raised.
C34_RecordVocabulary ==
  [][/\ \A i \in DOMAIN rows' : GoodRecord(rows'[i])
     /\ pc = "post" =>
          /\ Len(rows') = Len(rows) + 1
          /\ rows'[Len(rows')].status = status
          /\ rows'[Len(rows')].heal_stage = heal_stage
          /\ status = "FAIL" <=>
               (heal_stage = "heal_failed" \/ (heal_stage = "none" /\ last_error # NoError))]_vars

\* a step recovered by the model's proposal
C34_Witness ==
  /\ Len(rows) = 1
  /\ rows[1].heal_stage = "llm_heal" /\ rows[1].status = "PASS"
  /\ max_attempts = 2

\* a retry of a sub-stage has just succeeded
RetryPassed == pc \in {"fallback", "candidate", "llm"} /\ pc' = "post"

\* the targets the sub-stage under way can install: the element of the
\* step's fallback list at the attempt's index, the role and name of the
\* top-ranked candidate of a page, or the target of a reply of the model
\* (the target of entry when the reply has none)
Installable ==
  IF pc = "fallback"
  THEN {FbOrEmpty(healed[idx].fallback_targets).items[attempt]}
  ELSE IF pc = "candidate"
  THEN {TDict([EmptyTarget EXCEPT !.role = Ranked(healed[idx].action, d, TRUE)[1].role,
                                  !.name = Ranked(healed[idx].action, d, TRUE)[1].name]) :
          d \in {e \in world.doms : Ranked(healed[idx].action, e, TRUE) # <<>>}}
  ELSE {IF Truthy(resp.target) THEN resp.target ELSE target_data :
          resp \in {x \in LlmResponses : x.kind = "obj"}}

\* the step is recorded PASS and the loop goes on to the next step
RecordedAndOn ==
  Recovered =>
    /\ rows' = Append(rows, [step |-> healed[idx].step, action |-> healed[idx].action,
                             heal_stage |-> heal_stage, status |-> "PASS"])
    /\ healed' = healed
    /\ pc' = "loop" /\ idx' = idx + 1

\* C35 as stated: after a recovery the step carries the target the
\* succeeding sub-stage installed.
C35_Original ==
  [][RetryPassed => healed'[idx].target \in Installable]_vars

\* C35 amended: after a recovery the step carries the target the succeeding
\* sub-stage installed, with the selector of the element the retry acted on
\* written into it; the step is recorded PASS and execution proceeds to the
\* next step.
C35_RecoveredTarget ==
  [][/\ RetryPassed =>
          /\ status' = "PASS" /\ heal_stage' # "none"
          /\ healed'[idx].target \in
               Installable \cup {CapturedTarget(inst, sel) : inst \in Installable, sel \in Selectors}
     /\ RecordedAndOn]_vars

\* the Sign In button found by the candidate search, with its selector
C35_Witness ==
  /\ Recovered /\ heal_stage = "candidate_search"
  /\ scenario[1].target = tLogin
  /\ healed[1].target = TDict([EmptyTarget EXCEPT !.role = rButton, !.name = sSignIn,
                                                   !.selector = sCssC])

Healing == pc \in {"fallback", "candidate", "llm", "exhaust", "post"} /\ attempt >= 1

\* C37: with HEAL_MODE off, the step's fallback_targets during and after
\* healing are the list of the scenario: the same length and the same
\* element values as on entry.
C37_FallbacksKept ==
  (Healing /\ heal_mode = "off") =>
    healed[idx].fallback_targets = scenario[idx].fallback_targets

\* C38: within a step the active page and the resolver stay the ones the
\* step began with: the first execution and every retry of healing run
\* against that page, also when an earlier execution of the step opened a
\* new page; the switch to the newest page is made only at the end of the
\* step, after the action and all healing.
C38_StepContextFixed ==
  [][/\ pc # "post" => (page' = page /\ resolver' = resolver)
     /\ exec_count' = exec_count + 1 =>
          /\ exec_on' = page
          /\ \E k \in 1..pages_before : pages[k] = page
     /\ (page' # page \/ resolver' # resolver) =>
          /\ pc = "post" /\ pc' \in {"loop", "close"}
          /\ page' = pages[Len(pages)] /\ resolver' = page']_vars

\* the first execution opened page 2 and failed, the retry of the candidate
\* search ran against page 1 and opened page 3
C38_Witness ==
  /\ pc = "post" /\ heal_stage = "candidate_search"
  /\ exec_count = 2 /\ exec_on = 1
  /\ pages_before = 1 /\ pages = <<1, 2, 3>>
  /\ page = 1 /\ resolver = 1

(***************************************************************************)
(* Termination: every call of the browser and of the completion service    *)
(* returns or raises, so a step of execute that can be taken is taken.     *)
(***************************************************************************)
FairSpecHeal == InitHeal /\ [][Next]_vars /\ WF_vars(Next)

\* C39: execute comes to its return: every run of _heal_step ends with a
\* recovery or with heal_failed, and the loop ends after the last step or
\* the first FAIL.
C39_Terminates == <>(pc = "returned")

====
